---- MODULE Spec2Model ----
(***************************************************************************)
(* Model of the PriceMorphe tool server (build/src/server.js) and of the   *)
(* services it calls.  One tool call runs at a time in this model; every   *)
(* `await` of the handlers is a point where the call is suspended, so every *)
(* action below is the code between two awaits.                            *)
(***************************************************************************)
EXTENDS Integers, Sequences, FiniteSets, TLC

VARIABLES
    tool,        \* the tool whose handler is running, or "none"
    pc,          \* the await the handler is suspended at
    url,         \* get_product_details: argument url
    platform,    \* get_product_details: const platform
    dataset_id,  \* get_product_details: const dataset_id
    snapshot_id, \* get_product_details: const snapshot_id
    i,           \* get_product_details: loop variable i of the poll loop
    statuses,    \* history: the status bodies the progress endpoint answered
    log,         \* history: provider requests issued and delays started
    inflight,    \* provider requests issued and not yet answered
    extracted,   \* history: number of calls of the Field Extractor
    outcome,     \* what the handler returned or threw
    platforms,   \* search_products: argument platforms
    query,       \* search_products: argument query
    results,     \* search_products: const results
    k,           \* search_products: position of the for-of loop in platforms
    responses,   \* history: what the provider answered to the requests of the call
    probe,       \* the last call of a function of the extractor, with what it returned
    caller,      \* compare_prices / get_price_update: arguments and locals of the handler
    callerOutcome, \* what compare_prices / get_price_update returned or threw
    User,        \* table User: the rows, a set
    Product,     \* table Product: the rows, a set
    Price,       \* table Price: the rows in the order of their insertion
    uuids,       \* number of ids uuid() has issued
    clock,       \* now(): the time of the last request that wrote Price rows
    dbCall,      \* the last call of a service method, with what it returned or threw
    calls,       \* interleaved calls of get_product_details: the locals of each call
    snapshots,   \* the provider: the number of snapshots the trigger endpoint created
    boot,        \* the start of the server module: how far its top-level code has run
    mem          \* the in-memory generation: debug_stats.tracked_products and its callers

detailVars == <<url, platform, dataset_id, snapshot_id, i, statuses>>

searchVars == <<platforms, query, results, k>>

toolVars == <<tool, pc, url, platform, dataset_id, snapshot_id, i, statuses, log,
          inflight, extracted, outcome, platforms, query, results, k, responses>>

batchVars == <<caller, callerOutcome>>

dbVars == <<User, Product, Price, uuids, clock, dbCall>>

concVars == <<calls, snapshots>>

\* the variables outside the handlers of get_product_details and search_products
restVars == <<probe, batchVars, dbVars, concVars, boot, mem>>

vars == <<toolVars, restVars>>

-----------------------------------------------------------------------------
(* JavaScript values *)

undefined == "<undefined>"

null == "<null>"

\* a test against null and "" only, in place of !v
Falsy_NullOnly(v) == v \in {null, ""}

\* !v for the string-or-absent values the handlers test
Falsy(v) == v \in {undefined, null, ""}

-----------------------------------------------------------------------------
(* Strings the code searches in are sequences of characters *)

Includes(s, frag) ==
    \E j \in 1..(Len(s) - Len(frag) + 1) : SubSeq(s, j, j + Len(frag) - 1) = frag

F_amazon == <<"a","m","a","z","o","n",".">>
F_ebay == <<"e","b","a","y",".">>
F_walmart == <<"w","a","l","m","a","r","t",".">>
F_etsy == <<"e","t","s","y",".">>
F_bestbuy == <<"b","e","s","t","b","u","y",".">>
F_homedepot == <<"h","o","m","e","d","e","p","o","t",".">>
F_zara == <<"z","a","r","a",".">>

\* a detector that tests "ebay." before "amazon."
detect_platform_EbayFirst(u) ==
    IF Includes(u, F_ebay) THEN "ebay"
    ELSE IF Includes(u, F_amazon) THEN "amazon"
    ELSE IF Includes(u, F_walmart) THEN "walmart"
    ELSE IF Includes(u, F_etsy) THEN "etsy"
    ELSE IF Includes(u, F_bestbuy) THEN "bestbuy"
    ELSE IF Includes(u, F_homedepot) THEN "homedepot"
    ELSE IF Includes(u, F_zara) THEN "zara"
    ELSE "unknown"

detect_platform(u) ==
    IF Includes(u, F_amazon) THEN "amazon"
    ELSE IF Includes(u, F_ebay) THEN "ebay"
    ELSE IF Includes(u, F_walmart) THEN "walmart"
    ELSE IF Includes(u, F_etsy) THEN "etsy"
    ELSE IF Includes(u, F_bestbuy) THEN "bestbuy"
    ELSE IF Includes(u, F_homedepot) THEN "homedepot"
    ELSE IF Includes(u, F_zara) THEN "zara"
    ELSE "unknown"

Platform == {"amazon", "bestbuy", "ebay", "etsy", "homedepot", "unknown",
             "walmart", "zara"}

dataset_map ==
    [p \in Platform |->
        CASE p = "amazon" -> "gd_l7q7dkf244hwjntr0"
          [] p = "bestbuy" -> "gd_ltre1jqe1jfr7cccf"
          [] p = "ebay" -> "gd_ltr9mjt81n0zzdk1fb"
          [] p = "etsy" -> "gd_ltppk0jdv1jqz25mz"
          [] p = "homedepot" -> "gd_lmusivh019i7g97q2n"
          [] p = "unknown" -> ""
          [] p = "walmart" -> "gd_l95fol7l1ru6rlo116"
          [] p = "zara" -> "gd_lct4vafw1tgx27d4o0"]

\* a dataset_map without the entry for zara
get_dataset_id_NoZara(p) ==
    IF p \in Platform \ {"zara"} /\ ~Falsy(dataset_map[p]) THEN dataset_map[p] ELSE undefined

\* a lookup without `|| undefined`
get_dataset_id_EmptyKept(p) ==
    IF p \in Platform THEN dataset_map[p] ELSE undefined

get_dataset_id(p) ==
    IF p \in Platform /\ ~Falsy(dataset_map[p]) THEN dataset_map[p] ELSE undefined

\* new URL(u).origin of an https URL: everything before the first "/" of the path
SchemeLen == 8

RECURSIVE OriginEnd(_, _)
OriginEnd(u, j) ==
    IF j > Len(u) THEN Len(u)
    ELSE IF u[j] = "/" THEN j - 1
    ELSE OriginEnd(u, j + 1)

Origin(u) == SubSeq(u, 1, OriginEnd(u, SchemeLen + 1))

-----------------------------------------------------------------------------
(* The URLs the calls are made with *)

U_amazon == <<"h","t","t","p","s",":","/","/","a","m","a","z","o","n",".","c","o","m","/","a">>
U_ebay == <<"h","t","t","p","s",":","/","/","e","b","a","y",".","c","o","m","/","b">>
U_walmart == <<"h","t","t","p","s",":","/","/","w","a","l","m","a","r","t",".","c","o","m","/","c">>
U_etsy == <<"h","t","t","p","s",":","/","/","e","t","s","y",".","c","o","m","/","d">>
U_bestbuy == <<"h","t","t","p","s",":","/","/","b","e","s","t","b","u","y",".","c","o","m","/","e">>
U_homedepot == <<"h","t","t","p","s",":","/","/","h","o","m","e","d","e","p","o","t",".","c","o","m","/","f">>
U_zara == <<"h","t","t","p","s",":","/","/","z","a","r","a",".","c","o","m","/","g">>
U_shop == <<"h","t","t","p","s",":","/","/","s","h","o","p",".","i","o","/","h">>
U_nodot == <<"h","t","t","p","s",":","/","/","x",".","i","o","/","a","m","a","z","o","n">>
U_both == <<"h","t","t","p","s",":","/","/","e","b","a","y",".","a","m","a","z","o","n",".","i","o","/","i">>

Urls == {U_amazon, U_ebay, U_walmart, U_etsy, U_bestbuy, U_homedepot, U_zara,
         U_shop, U_nodot, U_both}

NoUrl == <<>>

-----------------------------------------------------------------------------
(* The provider: what each endpoint may answer *)

\* the message of the Error axios rejects with
AxiosError == "Request failed"

\* JSON bodies of POST /datasets/v3/trigger
TriggerBodies ==
    {[nullish |-> TRUE, snapshot_id |-> undefined]} \cup
    {[nullish |-> FALSE, snapshot_id |-> s] : s \in {undefined, "", "s_1", "s_2"}}

\* JSON bodies of GET /datasets/v3/progress/{snapshot_id}
Statuses == {"running", "failed", "ready", "done", undefined}

ProgressBodies ==
    {[nullish |-> TRUE, status |-> undefined]} \cup
    {[nullish |-> FALSE, status |-> s] : s \in Statuses}

\* bodies of GET /datasets/v3/snapshot/{snapshot_id}
Payloads == {"payload_1", "payload_2"}

\* text bodies of POST /request: the regions of the page the extractor reads
\* and the result items of a search page, each with the regions read from it
H_relative == <<"/","p","/","1">>
H_absolute == <<"h","t","t","p","s",":","/","/","c","d","n",".","i","o","/","p","/","2">>
H_none == <<>>

\* the texts of the price regions
T_empty == <<>>
T_plain == <<"$","1","9",".","9","9">>
T_thousands == <<"$","1",",","2","9","9",".","0","0">>
T_millions == <<"$","1",",","2","3","4",",","5","6","7",".","0","0">>
T_spaced == <<" ","7",".","5","0"," ">>
T_words == <<"N","/","A">>
T_dollar == <<"$">>
T_dot == <<".">>
T_twice == <<"$","1","9",".","9","9","$","2","4",".","9","9">>
T_whole == <<"1","9",".">>
T_wholeK == <<"1",",","2","9","9",".">>
T_fraction == <<"9","9">>

Item_full == [name |-> "Widget", price |-> T_plain, whole |-> T_whole, fraction |-> T_fraction,
              hasHref |-> TRUE, href |-> H_relative]
Item_noname == [name |-> "", price |-> T_plain, whole |-> T_whole, fraction |-> T_fraction,
                hasHref |-> TRUE, href |-> H_relative]
Item_noprice == [name |-> "Gadget", price |-> T_empty, whole |-> T_empty, fraction |-> T_empty,
                 hasHref |-> TRUE, href |-> H_absolute]
Item_nohref == [name |-> "Gizmo", price |-> T_thousands, whole |-> T_wholeK,
                fraction |-> T_fraction, hasHref |-> FALSE, href |-> H_none]
Item_absolute == [name |-> "Gadget", price |-> T_spaced, whole |-> T_whole,
                  fraction |-> T_fraction, hasHref |-> TRUE, href |-> H_absolute]

\* a page: name, price, description and image are the regions of a product page,
\* items the result elements of a search page
Page(name, price, description, image, items) ==
    [nullish |-> FALSE, name |-> name, price |-> price, description |-> description,
     image |-> image, items |-> items]

NoBody ==
    [nullish |-> TRUE, name |-> "", price |-> T_empty, description |-> "",
     image |-> undefined, items |-> <<>>]

Docs ==
    {NoBody,
     Page("", T_empty, "", undefined, <<>>),
     Page("Widget", T_plain, "A widget", "w.png", <<Item_full, Item_noname, Item_absolute>>),
     Page("Gizmo", T_empty, "", undefined, <<Item_nohref, Item_noprice>>)}

\* a rejected request: axios rejects with an Error
Rejected == [ok |-> FALSE, data |-> AxiosError]

Responses(bodies) == {Rejected} \cup {[ok |-> TRUE, data |-> b] : b \in bodies}

-----------------------------------------------------------------------------
(* Results of a handler *)

Pending == [status |-> "pending"]

Returned(v) == [status |-> "returned", value |-> v]

Threw(m) == [status |-> "error", message |-> m]

\* entries of the history variable log
Req(op, arg) == [op |-> op, arg |-> arg]

\* the history variables record up to HistCap entries; no call produces more
HistCap == 64

Hist(h, x) == IF Len(h) < HistCap THEN Append(h, x) ELSE h

OP_REQUEST == "POST /request"
OP_TRIGGER == "POST /datasets/v3/trigger"
OP_PROGRESS == "GET /datasets/v3/progress"
OP_SNAPSHOT == "GET /datasets/v3/snapshot"
OP_DELAY == "setTimeout"

-----------------------------------------------------------------------------
(* String.prototype.trim, String.prototype.replace and parseFloat on texts *)

Digits == {"0", "1", "2", "3", "4", "5", "6", "7", "8", "9"}

DigitValue(c) ==
    CASE c = "0" -> 0 [] c = "1" -> 1 [] c = "2" -> 2 [] c = "3" -> 3 [] c = "4" -> 4
      [] c = "5" -> 5 [] c = "6" -> 6 [] c = "7" -> 7 [] c = "8" -> 8 [] c = "9" -> 9

RECURSIVE TrimStart(_)
TrimStart(t) == IF t # <<>> /\ Head(t) = " " THEN TrimStart(Tail(t)) ELSE t

RECURSIVE TrimEnd(_)
TrimEnd(t) ==
    IF t # <<>> /\ t[Len(t)] = " " THEN TrimEnd(SubSeq(t, 1, Len(t) - 1)) ELSE t

Trim(t) == TrimEnd(TrimStart(t))

\* t.replace(/[^0-9.]/g, "")
IsNumericChar(c) == c \in Digits \cup {"."}

StripNonNumeric(t) == SelectSeq(t, IsNumericChar)

\* t.replace(c, ""): the first c only
RECURSIVE ReplaceFirst(_, _)
ReplaceFirst(t, c) ==
    IF t = <<>> THEN <<>>
    ELSE IF Head(t) = c THEN Tail(t)
    ELSE <<Head(t)>> \o ReplaceFirst(Tail(t), c)

\* numbers: NaN, or the integer part and the decimals without trailing zeros
NaN == [nan |-> TRUE, int |-> 0, frac |-> <<>>]

RECURSIVE DropZeros(_)
DropZeros(ds) ==
    IF ds # <<>> /\ ds[Len(ds)] = "0" THEN DropZeros(SubSeq(ds, 1, Len(ds) - 1)) ELSE ds

RECURSIVE DigitsValue(_, _)
DigitsValue(ds, acc) ==
    IF ds = <<>> THEN acc ELSE DigitsValue(Tail(ds), 10 * acc + DigitValue(Head(ds)))

Number(intDigits, fracDigits) ==
    [nan |-> FALSE, int |-> DigitsValue(intDigits, 0), frac |-> DropZeros(fracDigits)]

\* the longest prefix of t made of digits
RECURSIVE DigitRun(_)
DigitRun(t) ==
    IF t # <<>> /\ Head(t) \in Digits THEN <<Head(t)>> \o DigitRun(Tail(t)) ELSE <<>>

\* Number(t) in place of parseFloat(t): the empty text is 0
parseFloat_EmptyIsZero(t) ==
    LET u == TrimStart(t)
        intDigits == DigitRun(u)
        rest == SubSeq(u, Len(intDigits) + 1, Len(u))
        fracDigits == IF rest # <<>> /\ Head(rest) = "." THEN DigitRun(Tail(rest)) ELSE <<>>
    IN IF u = <<>> THEN Number(<<>>, <<>>)
       ELSE IF intDigits = <<>> /\ fracDigits = <<>> THEN NaN
       ELSE Number(intDigits, fracDigits)

\* parseFloat of a text without sign and exponent: leading blanks are skipped,
\* then digits, a point and digits are read; what follows is ignored
parseFloat(t) ==
    LET u == TrimStart(t)
        intDigits == DigitRun(u)
        rest == SubSeq(u, Len(intDigits) + 1, Len(u))
        fracDigits == IF rest # <<>> /\ Head(rest) = "." THEN DigitRun(Tail(rest)) ELSE <<>>
    IN IF intDigits = <<>> /\ fracDigits = <<>> THEN NaN
       ELSE Number(intDigits, fracDigits)

-----------------------------------------------------------------------------
(* ScraperService *)

SupportedPlatforms == {"amazon", "bestbuy", "ebay", "etsy", "homedepot", "walmart", "zara"}

\* result of a call that may throw
Ok(v) == [threw |-> FALSE, value |-> v]

Thrown(m) == [threw |-> TRUE, message |-> m]

\* `Unsupported platform: ${platform}`
UnsupportedPlatform(p) ==
    CASE p = "unknown" -> "Unsupported platform: unknown"
      [] p = "shopify" -> "Unsupported platform: shopify"
      [] OTHER -> "Unsupported platform: ?"

\* priceText of parse*Product: the price region with all but digits and points removed
DetailPriceText(html, p) ==
    IF p \in {"amazon", "ebay", "walmart"} THEN StripNonNumeric(Trim(html.price))
    ELSE StripNonNumeric(html.price)

\* the record parse*Product returns
ProductRecord(html, p, baseUrl) ==
    [currency |-> "USD", description |-> html.description, image |-> html.image,
     name |-> html.name, platform |-> p, price |-> parseFloat(DetailPriceText(html, p)),
     url |-> baseUrl]

parseProductDetails(html, p, u) ==
    IF html.nullish THEN Thrown("cheerio.load() expects a string")
    ELSE IF p \in SupportedPlatforms
         THEN Ok(ProductRecord(html, p, Origin(u)))
         ELSE Thrown(UnsupportedPlatform(p))

-----------------------------------------------------------------------------
(* get_product_details *)

\* a budget that is one attempt too long
max_attempts_OneMore == 30 + 1

max_attempts == 30

PollDelayMs == 2000

\* data?.snapshot_id
OptSnapshotId(data) == IF data.nullish THEN undefined ELSE data.snapshot_id

\* a loop that keeps waiting on "ready"
StatusStep_ReadyWaits(status) ==
    IF status \in {"running", "ready"} THEN "continue"
    ELSE IF status = "failed" THEN "throw"
    ELSE "fetch"

\* a loop without the test for "failed"
StatusStep_NoFailedTest(status) ==
    IF status = "running" THEN "continue" ELSE "fetch"

\* a loop that fetches only on "ready" and throws on any other status
StatusStep_ReadyOnly(status) ==
    IF status = "running" THEN "continue"
    ELSE IF status = "ready" THEN "fetch"
    ELSE "throw"

\* what the poll loop does with a status
StatusStep(status) ==
    IF status = "running" THEN "continue"
    ELSE IF status = "failed" THEN "throw"
    ELSE "fetch"

\* a loop that forgets i++
NextAttempt_Stuck(n) == n

\* i++ of the for loop
NextAttempt(n) == n + 1

Envelope(data, method) ==
    [data |-> data, method |-> method, platform |-> platform, url |-> url]

NoProbe == [fn |-> "none"]

NoCall == [op |-> "none"]

\* the module before its top-level code runs: the credential and the zone it
\* read, the provider requests it sent, the tools it registered, whether the
\* server was started and what it threw
NotStarted ==
    [pc |-> "load", api_token |-> undefined, unlocker_zone |-> undefined, requests |-> <<>>,
     tools |-> <<>>, started |-> FALSE, threw |-> ""]

\* the in-memory generation after the module is loaded: tracked_products is
\* an empty Map (its entries in insertion order), no update_tracked_prices call
\* is running (todo, updates), the clock of new Date(), and the last tool step
EmptyMem ==
    [tracked_products |-> <<>>, running |-> FALSE, todo |-> <<>>, updates |-> <<>>,
     now |-> 0, call |-> [op |-> "none"]]

\* the calls of get_product_details that may run at the same time
Calls == {"c1", "c2"}

\* snapshot_id before the trigger has answered
NoSnapshot == 0

\* the locals of a call of get_product_details; requested collects the snapshot
\* ids the call has named in its progress and snapshot requests
Call(pcOfCall, u, p, d, s, n, o, requested) ==
    [pc |-> pcOfCall, url |-> u, platform |-> p, dataset_id |-> d, snapshot_id |-> s,
     i |-> n, outcome |-> o, requested |-> requested]

NotCalled == Call("idle", NoUrl, undefined, undefined, NoSnapshot, 0, Pending, {})

\* the arguments and locals of a batch handler: hasUrls and hasQuery tell whether
\* the optional arguments were given, n is the position of the for-of loop in urls,
\* entries is comparison_results / updates
Caller(t, ps, hasQuery, q, hasUrls, us) ==
    [tool |-> t, platforms |-> ps, hasQuery |-> hasQuery, query |-> q,
     hasUrls |-> hasUrls, urls |-> us, n |-> 1, entries |-> <<>>]

NoCaller == Caller("none", <<>>, FALSE, <<>>, FALSE, <<>>)

Init ==
    /\ tool = "none"
    /\ pc = "idle"
    /\ url = NoUrl
    /\ platform = undefined
    /\ dataset_id = undefined
    /\ snapshot_id = undefined
    /\ i = 0
    /\ statuses = <<>>
    /\ log = <<>>
    /\ inflight = 0
    /\ extracted = 0
    /\ outcome = Pending
    /\ platforms = <<>>
    /\ query = <<>>
    /\ results = <<>>
    /\ k = 0
    /\ responses = <<>>
    /\ probe = NoProbe
    /\ caller = NoCaller
    /\ callerOutcome = Pending
    /\ User = {}
    /\ Product = {}
    /\ Price = <<>>
    /\ uuids = 0
    /\ clock = 0
    /\ dbCall = NoCall
    /\ calls = [c \in Calls |-> NotCalled]
    /\ snapshots = 0
    /\ boot = NotStarted
    /\ mem = EmptyMem

\* execute({url}) up to its first await
GetProductDetails(u) ==
    /\ tool = "none"
    /\ tool' = "get_product_details"
    /\ url' = u
    /\ platform' = detect_platform(u)
    /\ dataset_id' = get_dataset_id(detect_platform(u))
    /\ IF Falsy(dataset_id')
       THEN /\ log' = Hist(log, Req(OP_REQUEST, u))
            /\ pc' = "scrape"
       ELSE /\ log' = Hist(log, Req(OP_TRIGGER, [url |-> u, dataset_id |-> dataset_id']))
            /\ pc' = "trigger"
    /\ inflight' = inflight + 1
    /\ UNCHANGED <<snapshot_id, i, statuses, extracted, outcome>>
    /\ UNCHANGED responses
    /\ UNCHANGED searchVars

\* the scrape fallback, from the answer of POST /request to the return
ScrapeResponse(r) ==
    /\ tool = "get_product_details"
    /\ pc = "scrape"
    /\ inflight' = inflight - 1
    /\ pc' = "done"
    /\ IF ~r.ok
       THEN /\ outcome' = Threw(AxiosError)
            /\ UNCHANGED extracted
       ELSE LET parsedProduct == parseProductDetails(r.data, platform, Origin(url))
            IN /\ extracted' = extracted + 1
               /\ outcome' = IF parsedProduct.threw
                              THEN Threw(parsedProduct.message)
                              ELSE Returned(Envelope(parsedProduct.value, "scraping"))
    /\ UNCHANGED <<tool, url, platform, dataset_id, snapshot_id, i, statuses, log>>
    /\ responses' = Hist(responses, r)
    /\ UNCHANGED searchVars

\* a poll loop whose sleep grows with the attempt
LoopHead_BackOff(n) ==
    /\ i' = n
    /\ IF n < max_attempts
       THEN /\ log' = Hist(log, Req(OP_DELAY, PollDelayMs * (n + 1)))
            /\ pc' = "delay"
            /\ UNCHANGED outcome
       ELSE /\ outcome' = Threw("Timeout waiting for dataset results")
            /\ pc' = "done"
            /\ UNCHANGED log

\* the head of the poll loop with i = n: test i < max_attempts, then sleep or time out
LoopHead(n) ==
    /\ i' = n
    /\ IF n < max_attempts
       THEN /\ log' = Hist(log, Req(OP_DELAY, PollDelayMs))
            /\ pc' = "delay"
            /\ UNCHANGED outcome
       ELSE /\ outcome' = Threw("Timeout waiting for dataset results")
            /\ pc' = "done"
            /\ UNCHANGED log

\* from the answer of the trigger request to the first sleep
TriggerResponse(r) ==
    /\ tool = "get_product_details"
    /\ pc = "trigger"
    /\ inflight' = inflight - 1
    /\ IF ~r.ok
       THEN /\ outcome' = Threw(AxiosError)
            /\ pc' = "done"
            /\ UNCHANGED <<snapshot_id, i, log>>
       ELSE IF Falsy(OptSnapshotId(r.data))
       THEN /\ outcome' = Threw("Failed to trigger dataset collection")
            /\ pc' = "done"
            /\ UNCHANGED <<snapshot_id, i, log>>
       ELSE /\ snapshot_id' = r.data.snapshot_id
            /\ LoopHead(0)
    /\ UNCHANGED <<tool, url, platform, dataset_id, statuses, extracted>>
    /\ responses' = Hist(responses, r)
    /\ UNCHANGED searchVars

\* the 2 second timer fires: the progress request is issued
DelayDone ==
    /\ tool = "get_product_details"
    /\ pc = "delay"
    /\ log' = Hist(log, Req(OP_PROGRESS, snapshot_id))
    /\ inflight' = inflight + 1
    /\ pc' = "progress"
    /\ UNCHANGED <<tool, url, platform, dataset_id, snapshot_id, i, statuses,
                   extracted, outcome>>
    /\ UNCHANGED responses
    /\ UNCHANGED searchVars

\* from the answer of a progress request to the next await
ProgressResponse(r) ==
    /\ tool = "get_product_details"
    /\ pc = "progress"
    /\ IF ~r.ok
       THEN /\ outcome' = Threw(AxiosError)
            /\ pc' = "done"
            /\ inflight' = inflight - 1
            /\ UNCHANGED <<i, statuses, log>>
       ELSE IF r.data.nullish
       THEN /\ outcome' = Threw("TypeError")
            /\ pc' = "done"
            /\ inflight' = inflight - 1
            /\ UNCHANGED <<i, statuses, log>>
       ELSE /\ statuses' = Hist(statuses, r.data.status)
            /\ CASE StatusStep(r.data.status) = "continue" ->
                       /\ LoopHead(NextAttempt(i))
                       /\ inflight' = inflight - 1
                 [] StatusStep(r.data.status) = "throw" ->
                       /\ outcome' = Threw("Dataset collection failed")
                       /\ pc' = "done"
                       /\ inflight' = inflight - 1
                       /\ UNCHANGED <<i, log>>
                 [] OTHER ->
                       /\ log' = Hist(log, Req(OP_SNAPSHOT, snapshot_id))
                       /\ pc' = "snapshot"
                       /\ inflight' = inflight - 1 + 1
                       /\ UNCHANGED <<i, outcome>>
    /\ UNCHANGED <<tool, url, platform, dataset_id, snapshot_id, extracted>>
    /\ responses' = Hist(responses, r)
    /\ UNCHANGED searchVars

\* from the answer of the snapshot request to the return
SnapshotResponse(r) ==
    /\ tool = "get_product_details"
    /\ pc = "snapshot"
    /\ inflight' = inflight - 1
    /\ pc' = "done"
    /\ outcome' = IF ~r.ok THEN Threw(AxiosError)
                  ELSE Returned(Envelope(r.data, "structured_dataset"))
    /\ UNCHANGED <<tool, url, platform, dataset_id, snapshot_id, i, statuses, log,
                   extracted>>
    /\ responses' = Hist(responses, r)
    /\ UNCHANGED searchVars

-----------------------------------------------------------------------------
(* ScraperService.parseSearchResults *)

S_undefined == <<"u","n","d","e","f","i","n","e","d">>

\* href ? (href.startsWith("http") ? href : baseUrl + href) : ""
H_http == <<"h","t","t","p">>

StartsWith(s, prefix) == Len(s) >= Len(prefix) /\ SubSeq(s, 1, Len(prefix)) = prefix

ResolveHref(item, baseUrl) ==
    IF item.hasHref /\ item.href # <<>>
    THEN IF StartsWith(item.href, H_http) THEN item.href ELSE baseUrl \o item.href
    ELSE <<>>

\* baseUrl + $el.find("a").attr("href")
ConcatHref(item, baseUrl) ==
    baseUrl \o (IF item.hasHref THEN item.href ELSE S_undefined)

SearchItemUrl(item, p, baseUrl) ==
    IF p \in {"walmart", "zara"} THEN ConcatHref(item, baseUrl)
    ELSE ResolveHref(item, baseUrl)

\* priceText of parse*Search (amazon: `${priceWhole}.${priceFraction}`)
SearchPriceText(item, p) ==
    CASE p = "amazon" -> Trim(item.whole) \o <<".">> \o Trim(item.fraction)
      [] p = "ebay" -> ReplaceFirst(ReplaceFirst(Trim(item.price), "$"), ",")
      [] p = "etsy" -> ReplaceFirst(item.price, ",")
      [] OTHER -> ReplaceFirst(ReplaceFirst(item.price, "$"), ",")

\* the price text tested before products.push
SearchPricePresent(item, p) ==
    IF p = "amazon" THEN Trim(item.whole) # <<>> \/ Trim(item.fraction) # <<>>
    ELSE SearchPriceText(item, p) # <<>>

\* the test that guards products.push
SearchItemKept(item, p, baseUrl) ==
    IF p \in {"walmart", "zara"}
    THEN item.name # "" /\ SearchPricePresent(item, p)
    ELSE item.name # "" /\ SearchPricePresent(item, p)
           /\ SearchItemUrl(item, p, baseUrl) # <<>>

\* the record pushed for an item
SearchItemRecord(item, p, baseUrl) ==
    [currency |-> "USD", name |-> item.name, platform |-> p,
     price |-> parseFloat(SearchPriceText(item, p)),
     url |-> SearchItemUrl(item, p, baseUrl)]

RECURSIVE SearchProductsOf(_, _, _)
SearchProductsOf(items, p, baseUrl) ==
    IF items = <<>> THEN <<>>
    ELSE (IF SearchItemKept(Head(items), p, baseUrl)
          THEN <<SearchItemRecord(Head(items), p, baseUrl)>>
          ELSE <<>>) \o SearchProductsOf(Tail(items), p, baseUrl)

\* a search extraction whose default case throws as the detail extraction does
parseSearchResults_DefaultThrows(html, p, baseUrl) ==
    IF html.nullish THEN Thrown("cheerio.load() expects a string")
    ELSE IF p \in SupportedPlatforms THEN Ok(SearchProductsOf(html.items, p, baseUrl))
    ELSE Thrown(UnsupportedPlatform(p))

parseSearchResults(html, p, baseUrl) ==
    IF html.nullish THEN Thrown("cheerio.load() expects a string")
    ELSE IF p \in SupportedPlatforms THEN Ok(SearchProductsOf(html.items, p, baseUrl))
    ELSE Ok(<<>>)

-----------------------------------------------------------------------------
(* search_products *)

\* encodeURIComponent: letters stay, a space and an ampersand are escaped
EncodeChar(c) ==
    IF c = " " THEN <<"%", "2", "0">>
    ELSE IF c = "&" THEN <<"%", "2", "6">>
    ELSE <<c>>

RECURSIVE encodeURIComponent(_)
encodeURIComponent(q) ==
    IF q = <<>> THEN <<>> ELSE EncodeChar(Head(q)) \o encodeURIComponent(Tail(q))

B_amazon == <<"h","t","t","p","s",":","/","/","w","w","w",".","a","m","a","z","o","n",".","c","o","m","/","s","?","k","=">>
B_bestbuy == <<"h","t","t","p","s",":","/","/","w","w","w",".","b","e","s","t","b","u","y",".","c","o","m","/","s","i","t","e","/","s","e","a","r","c","h","p","a","g","e",".","j","s","p","?","s","t","=">>
B_ebay == <<"h","t","t","p","s",":","/","/","w","w","w",".","e","b","a","y",".","c","o","m","/","s","c","h","/","i",".","h","t","m","l","?","_","n","k","w","=">>
B_etsy == <<"h","t","t","p","s",":","/","/","w","w","w",".","e","t","s","y",".","c","o","m","/","s","e","a","r","c","h","?","q","=">>
B_homedepot == <<"h","t","t","p","s",":","/","/","w","w","w",".","h","o","m","e","d","e","p","o","t",".","c","o","m","/","s","e","a","r","c","h","?","q","=">>
B_walmart == <<"h","t","t","p","s",":","/","/","w","w","w",".","w","a","l","m","a","r","t",".","c","o","m","/","s","e","a","r","c","h","?","q","=">>
B_zara == <<"h","t","t","p","s",":","/","/","w","w","w",".","z","a","r","a",".","c","o","m","/","u","s","/","e","n","/","s","e","a","r","c","h","?","q","=">>
B_nosplash == <<"&","i","n","t","l","=","n","o","s","p","l","a","s","h">>

\* the switch that builds search_url
SearchUrl(p, q) ==
    CASE p = "amazon" -> B_amazon \o encodeURIComponent(q)
      [] p = "bestbuy" -> B_bestbuy \o encodeURIComponent(q) \o B_nosplash
      [] p = "ebay" -> B_ebay \o encodeURIComponent(q)
      [] p = "etsy" -> B_etsy \o encodeURIComponent(q)
      [] p = "homedepot" -> B_homedepot \o encodeURIComponent(q)
      [] p = "walmart" -> B_walmart \o encodeURIComponent(q)
      [] p = "zara" -> B_zara \o encodeURIComponent(q)
      [] OTHER -> <<>>

\* the values of the platforms parameter: arrays of the zod enum
MaxPlatforms == 2

RECURSIVE SeqsUpTo(_, _)
SeqsUpTo(S, n) ==
    IF n = 0 THEN {<<>>}
    ELSE SeqsUpTo(S, n - 1) \cup
         {Append(t, x) : t \in {t2 \in SeqsUpTo(S, n - 1) : Len(t2) = n - 1}, x \in S}

PlatformLists == SeqsUpTo(SupportedPlatforms, MaxPlatforms)

Q_tv == <<"t", "v">>
Q_spaced == <<"a", " ", "&", "b">>

Queries == {Q_tv, Q_spaced}

\* a thrown value that is not an Error
NonError == "<non-Error>"

SearchResponses == Responses(Docs) \cup {[ok |-> FALSE, data |-> NonError]}

\* results.push of the try block
PushData(res, parsedProducts, p, search_url) ==
    Append(res, [data |-> parsedProducts, platform |-> p, search_url |-> search_url])

\* a catch block that starts the list again
PushError_Resets(res, message, p) ==
    <<[error |-> message, platform |-> p, search_url |-> <<>>]>>

\* results.push of the catch block
PushError(res, message, p) ==
    Append(res, [error |-> message, platform |-> p, search_url |-> <<>>])

\* e instanceof Error ? e.message : "An unknown error occurred"
CaughtMessage(e) == IF e = NonError THEN "An unknown error occurred" ELSE e

\* one pass of the body of the for-of loop after the answer r for platform p
SearchStep(res, p, q, r) ==
    IF ~r.ok THEN PushError(res, CaughtMessage(r.data), p)
    ELSE LET parsed == parseSearchResults(r.data, p, Origin(SearchUrl(p, q)))
         IN IF parsed.threw THEN PushError(res, CaughtMessage(parsed.message), p)
            ELSE PushData(res, parsed.value, p, SearchUrl(p, q))

\* a loop that issues the requests of all platforms at once
SearchLoopHead_Parallel(ps, q, n, res, pending) ==
    /\ k' = n
    /\ results' = res
    /\ IF n <= Len(ps)
       THEN /\ log' = IF n = 1
                      THEN log \o [j \in 1..Len(ps) |-> Req(OP_REQUEST, SearchUrl(ps[j], q))]
                      ELSE log
            /\ inflight' = IF n = 1 THEN pending + Len(ps) ELSE pending
            /\ pc' = "search"
            /\ UNCHANGED outcome
       ELSE /\ outcome' = Returned([platforms_searched |-> ps, query |-> q, results |-> res])
            /\ pc' = "done"
            /\ inflight' = pending
            /\ UNCHANGED log

\* the for-of loop at position n with results res: issue the request or return
SearchLoopHead(ps, q, n, res, pending) ==
    /\ k' = n
    /\ results' = res
    /\ IF n <= Len(ps)
       THEN /\ log' = Hist(log, Req(OP_REQUEST, SearchUrl(ps[n], q)))
            /\ inflight' = pending + 1
            /\ pc' = "search"
            /\ UNCHANGED outcome
       ELSE /\ outcome' = Returned([platforms_searched |-> ps, query |-> q, results |-> res])
            /\ pc' = "done"
            /\ inflight' = pending
            /\ UNCHANGED log

\* execute({platforms, query}) up to its first await
SearchProducts(ps, q) ==
    /\ tool = "none"
    /\ tool' = "search_products"
    /\ platforms' = ps
    /\ query' = q
    /\ SearchLoopHead(ps, q, 1, <<>>, inflight)
    /\ UNCHANGED <<responses, extracted>>
    /\ UNCHANGED detailVars

\* from the answer for platforms[k] to the next await or the return
SearchResponse(r) ==
    /\ tool = "search_products"
    /\ pc = "search"
    /\ responses' = Hist(responses, r)
    /\ extracted' = IF r.ok THEN extracted + 1 ELSE extracted
    /\ SearchLoopHead(platforms, query, k + 1,
                      SearchStep(results, platforms[k], query, r), inflight - 1)
    /\ UNCHANGED <<tool, platforms, query>>
    /\ UNCHANGED detailVars

\* the host has taken the result; the handler's locals are gone
Return ==
    /\ pc = "done"
    /\ tool' = "none"
    /\ pc' = "idle"
    /\ url' = NoUrl
    /\ platform' = undefined
    /\ dataset_id' = undefined
    /\ snapshot_id' = undefined
    /\ i' = 0
    /\ statuses' = <<>>
    /\ log' = <<>>
    /\ inflight' = 0
    /\ extracted' = 0
    /\ outcome' = Pending
    /\ platforms' = <<>>
    /\ query' = <<>>
    /\ results' = <<>>
    /\ k' = 0
    /\ responses' = <<>>

Next ==
    \/ \E u \in Urls : GetProductDetails(u) /\ UNCHANGED restVars
    \/ \E r \in Responses(Docs) : ScrapeResponse(r) /\ UNCHANGED restVars
    \/ \E r \in Responses(TriggerBodies) : TriggerResponse(r) /\ UNCHANGED restVars
    \/ DelayDone /\ UNCHANGED restVars
    \/ \E r \in Responses(ProgressBodies) : ProgressResponse(r) /\ UNCHANGED restVars
    \/ \E r \in Responses(Payloads) : SnapshotResponse(r) /\ UNCHANGED restVars
    \/ \E ps \in PlatformLists, q \in Queries : SearchProducts(ps, q) /\ UNCHANGED restVars
    \/ \E r \in SearchResponses : SearchResponse(r) /\ UNCHANGED restVars
    \/ Return /\ UNCHANGED restVars

Spec == Init /\ [][Next]_vars

\* every provider request is answered and every timer fires
FairSpec ==
    /\ Spec
    /\ WF_vars(\E r \in Responses(Docs) : ScrapeResponse(r) /\ UNCHANGED restVars)
    /\ WF_vars(\E r \in Responses(TriggerBodies) : TriggerResponse(r) /\ UNCHANGED restVars)
    /\ WF_vars(DelayDone /\ UNCHANGED restVars)
    /\ WF_vars(\E r \in Responses(ProgressBodies) : ProgressResponse(r) /\ UNCHANGED restVars)
    /\ WF_vars(\E r \in Responses(Payloads) : SnapshotResponse(r) /\ UNCHANGED restVars)
    /\ WF_vars(\E r \in SearchResponses : SearchResponse(r) /\ UNCHANGED restVars)

-----------------------------------------------------------------------------
(* The functions of the extractor and of the selector, applied to inputs *)

PriceTexts ==
    {T_empty, T_plain, T_thousands, T_millions, T_spaced, T_words, T_dollar, T_dot, T_twice}

ProbePages ==
    {NoBody} \cup
    {Page(n, t, "A widget", img, <<>>) :
        n \in {"", "Widget"}, t \in PriceTexts, img \in {undefined, "w.png"}}

Hrefs ==
    {[hasHref |-> FALSE, href |-> H_none], [hasHref |-> TRUE, href |-> <<>>],
     [hasHref |-> TRUE, href |-> H_relative], [hasHref |-> TRUE, href |-> H_absolute]}

SplitPrices ==
    {[whole |-> T_empty, fraction |-> T_empty], [whole |-> T_whole, fraction |-> T_fraction],
     [whole |-> T_wholeK, fraction |-> T_fraction], [whole |-> T_words, fraction |-> T_empty]}

ProbeItems ==
    {[name |-> n, price |-> t, whole |-> w.whole, fraction |-> w.fraction,
      hasHref |-> h.hasHref, href |-> h.href] :
        n \in {"", "Widget"}, t \in PriceTexts, w \in SplitPrices, h \in Hrefs}

SearchPages ==
    Docs \cup {Page("", T_empty, "", undefined, <<it>>) : it \in ProbeItems}

BaseUrls == {Origin(U_amazon), Origin(U_shop)}

\* the tags of the type Platform and a tag outside it
Tags == Platform \cup {"shopify"}

\* each behaviour applies one function to one input
DetectPlatform(u) ==
    /\ probe = NoProbe
    /\ probe' = [fn |-> "detect_platform", url |-> u, ret |-> detect_platform(u)]

GetDatasetId(p) ==
    /\ probe = NoProbe
    /\ probe' = [fn |-> "get_dataset_id", platform |-> p, ret |-> get_dataset_id(p)]

ParseProductDetails(html, p, u) ==
    /\ probe = NoProbe
    /\ probe' = [fn |-> "parseProductDetails", html |-> html, platform |-> p, url |-> u,
                 ret |-> parseProductDetails(html, p, u)]

ParseSearchResults(html, p, baseUrl) ==
    /\ probe = NoProbe
    /\ probe' = [fn |-> "parseSearchResults", html |-> html, platform |-> p,
                 baseUrl |-> baseUrl, ret |-> parseSearchResults(html, p, baseUrl)]

ExtractNext ==
    \/ \E u \in Urls : DetectPlatform(u) /\ UNCHANGED <<toolVars, batchVars, dbVars, concVars, boot, mem>>
    \/ \E p \in Platform : GetDatasetId(p) /\ UNCHANGED <<toolVars, batchVars, dbVars, concVars, boot, mem>>
    \/ \E html \in ProbePages, p \in Tags, u \in {U_amazon, U_shop} :
          ParseProductDetails(html, p, u) /\ UNCHANGED <<toolVars, batchVars, dbVars, concVars, boot, mem>>
    \/ \E html \in SearchPages, p \in Tags, b \in BaseUrls :
          ParseSearchResults(html, p, b) /\ UNCHANGED <<toolVars, batchVars, dbVars, concVars, boot, mem>>

ExtractSpec == Init /\ [][ExtractNext]_vars

-----------------------------------------------------------------------------
(* compare_prices and get_price_update *)

MaxUrls == 2

\* a URL with a dataset and a URL of an unknown platform
BatchUrls == {U_zara, U_shop}

UrlLists == SeqsUpTo(BatchUrls, MaxUrls)

\* z.enum of the parameter platforms of compare_prices
ComparePlatforms == {"amazon", "ebay", "walmart", "etsy", "bestbuy"}

\* .default(["amazon", "ebay", "walmart"])
DefaultPlatforms == <<"amazon", "ebay", "walmart">>

ComparePlatformLists == SeqsUpTo(ComparePlatforms, MaxPlatforms) \cup {DefaultPlatforms}

\* what the provider answers while a batch handler runs: a rejected request, or
\* one of these bodies
BatchDocs == {Page("Widget", T_plain, "A widget", "w.png", <<Item_full, Item_noname>>)}

BatchTriggerBodies ==
    {[nullish |-> FALSE, snapshot_id |-> s] : s \in {undefined, "s_1"}}

BatchProgressBodies == {[nullish |-> FALSE, status |-> s] : s \in {"running", "failed", "ready"}}

BatchPayloads == {"payload_1"}

\* the object compare_prices returns (timestamp left out)
Comparison(c, res) ==
    [query |-> IF c.hasQuery /\ c.query # <<>> THEN c.query ELSE <<"n","u","l","l">>,
     results |-> res,
     type |-> IF c.hasUrls THEN "url_comparison" ELSE "search_comparison"]

\* a result that counts the entries with status "updated" only
PriceUpdate_CountsUpdated(updates) ==
    [updated_products |-> Cardinality({j \in 1..Len(updates) : updates[j].status = "updated"}),
     updates |-> updates]

\* the object get_price_update returns (timestamp left out)
PriceUpdate(updates) == [updated_products |-> Len(updates), updates |-> updates]

\* execute({platforms, query, urls}) of compare_prices up to its first await
ComparePrices(ps, hasQuery, q, hasUrls, us) ==
    /\ caller' = Caller("compare_prices", ps, hasQuery, q, hasUrls, us)
    /\ IF hasUrls /\ Len(us) > 0
       THEN GetProductDetails(us[1]) /\ UNCHANGED callerOutcome
       ELSE IF hasQuery /\ q # <<>>
       THEN SearchProducts(ps, q) /\ UNCHANGED callerOutcome
       ELSE /\ callerOutcome' = Threw("Either query or urls must be provided")
            /\ UNCHANGED toolVars

\* execute({urls}) of get_price_update up to its first await
GetPriceUpdate(us) ==
    /\ caller' = Caller("get_price_update", <<>>, FALSE, <<>>, TRUE, us)
    /\ IF Len(us) > 0
       THEN GetProductDetails(us[1]) /\ UNCHANGED callerOutcome
       ELSE /\ callerOutcome' = Returned(PriceUpdate(<<>>))
            /\ UNCHANGED toolVars

\* comparison_results after the try/catch around the call for a URL
ComparisonPush(res, o) ==
    IF o.status = "returned" THEN Append(res, o.value) ELSE res

\* updates after the try/catch around the call for a URL
UpdatePush(updates, o, u) ==
    IF o.status = "returned"
    THEN Append(updates, [data |-> o.value, status |-> "updated", url |-> u])
    ELSE Append(updates, [error |-> o.message, status |-> "error", url |-> u])

\* the call for urls[n] has returned or thrown: the body of the loop up to the
\* next call of get_product_details, or up to the return after the last URL
UrlDone ==
    /\ caller.tool \in {"compare_prices", "get_price_update"}
    /\ tool = "get_product_details"
    /\ Return
    /\ LET res == IF caller.tool = "compare_prices"
                  THEN ComparisonPush(caller.entries, outcome)
                  ELSE UpdatePush(caller.entries, outcome, caller.urls[caller.n])
       IN /\ caller' = [caller EXCEPT !.entries = res, !.n = @ + 1]
          /\ callerOutcome' =
                IF caller.n < Len(caller.urls) THEN Pending
                ELSE IF caller.tool = "compare_prices"
                THEN Returned(Comparison(caller, res))
                ELSE Returned(PriceUpdate(res))

\* the next iteration of the loop calls get_product_details
NextUrl ==
    /\ caller.tool \in {"compare_prices", "get_price_update"}
    /\ callerOutcome = Pending
    /\ caller.n > 1
    /\ caller.n <= Len(caller.urls)
    /\ GetProductDetails(caller.urls[caller.n])
    /\ UNCHANGED batchVars

\* the search of compare_prices has returned: search_results is the JSON text
\* search_products returns, and its property results is undefined
SearchDone ==
    /\ caller.tool = "compare_prices"
    /\ tool = "search_products"
    /\ Return
    /\ callerOutcome' =
          IF outcome.status = "returned" THEN Returned(Comparison(caller, undefined))
          ELSE outcome
    /\ UNCHANGED caller

\* the host has taken the result of the batch handler
CallerReturn ==
    /\ callerOutcome # Pending
    /\ caller' = NoCaller
    /\ callerOutcome' = Pending
    /\ UNCHANGED toolVars

\* the handlers start when the host is idle
Idle == caller = NoCaller /\ callerOutcome = Pending

BatchNext ==
    \/ /\ Idle
       /\ \E ps \in ComparePlatformLists, hasQuery \in BOOLEAN, q \in {<<>>, Q_tv},
             hasUrls \in BOOLEAN, us \in UrlLists :
               /\ hasQuery \/ q = <<>>
               /\ hasUrls \/ us = <<>>
               /\ us # <<>> => ps = DefaultPlatforms
               /\ ComparePrices(ps, hasQuery, q, hasUrls, us)
               /\ UNCHANGED <<probe, dbVars, concVars, boot, mem>>
    \/ Idle /\ \E us \in UrlLists : GetPriceUpdate(us) /\ UNCHANGED <<probe, dbVars, concVars, boot, mem>>
    \/ \E r \in Responses(BatchDocs) : ScrapeResponse(r) /\ UNCHANGED restVars
    \/ \E r \in Responses(BatchTriggerBodies) : TriggerResponse(r) /\ UNCHANGED restVars
    \/ DelayDone /\ UNCHANGED restVars
    \/ \E r \in Responses(BatchProgressBodies) : ProgressResponse(r) /\ UNCHANGED restVars
    \/ \E r \in Responses(BatchPayloads) : SnapshotResponse(r) /\ UNCHANGED restVars
    \/ \E r \in Responses(BatchDocs) : SearchResponse(r) /\ UNCHANGED restVars
    \/ UrlDone /\ UNCHANGED <<probe, dbVars, concVars, boot, mem>>
    \/ NextUrl /\ UNCHANGED <<probe, dbVars, concVars, boot, mem>>
    \/ SearchDone /\ UNCHANGED <<probe, dbVars, concVars, boot, mem>>
    \/ CallerReturn /\ UNCHANGED <<probe, dbVars, concVars, boot, mem>>

BatchSpec == Init /\ [][BatchNext]_vars

-----------------------------------------------------------------------------
(* UserService and ProductService over the tables User, Product and Price *)

MaxProducts == 2

MaxPrices == 3

MaxItems == 2

UserIds == {"u1", "u2"}

\* amounts in cents
Amounts == {2499}

\* the argument productDetails of trackProduct; hasPrice tells whether currentPrice
\* is given
ProductDetails ==
    {[name |-> "Widget", platform |-> <<"z","a","r","a">>, url |-> U_zara, hasPrice |-> FALSE,
      currentPrice |-> 0],
     [name |-> "Widget", platform |-> <<"z","a","r","a">>, url |-> U_zara, hasPrice |-> TRUE,
      currentPrice |-> 1999],
     [name |-> "", platform |-> <<>>, url |-> U_shop, hasPrice |-> TRUE,
      currentPrice |-> 1999]}

\* an id no row has
NoSuchId == 0

\* the argument data of updateAllProducts: items name the ids of products and an
\* id that names none
UpdateItems ==
    {[id |-> d, currentPrice |-> a] : d \in {q.id : q \in Product} \cup {NoSuchId}, a \in Amounts}

UpdateLists == SeqsUpTo(UpdateItems, MaxItems)

\* a lookup that finds a user whatever the userId
FindUser_Any(userId) == User

\* prisma.user.findUnique({ where: { userId } })
FindUser(userId) == {u \in User : u.userId = userId}

\* the Price rows of a product, in the order of their insertion
RowsOf(rows, productId) == SelectSeq(rows, LAMBDA r : r.productId = productId)

\* productDetails.currentPrice || 0
InitialAmount(d) == IF d.hasPrice THEN d.currentPrice ELSE 0

\* UserService.createOrUpdateUser: upsert with an empty update
CreateOrUpdateUser(userId) ==
    /\ IF FindUser(userId) = {}
       THEN /\ User' = User \cup {[id |-> uuids + 1, userId |-> userId]}
            /\ uuids' = uuids + 1
       ELSE UNCHANGED <<User, uuids>>
    /\ dbCall' = [op |-> "createOrUpdateUser", userId |-> userId, threw |-> FALSE]
    /\ UNCHANGED <<Product, Price, clock>>

\* new URL(url).hostname of an https URL
Hostname(u) == SubSeq(Origin(u), SchemeLen + 1, Len(Origin(u)))

\* the rows prisma.product.create inserts: the Product and its first Price
CreatedProduct(user, d, id) ==
    [id |-> id,
     name |-> IF d.name # "" THEN d.name ELSE "New Product",
     platform |-> IF d.platform # <<>> THEN d.platform ELSE Hostname(d.url),
     target_price |-> null, tracking_type |-> "price", url |-> d.url, userId |-> user.id]

\* ProductService.trackProduct
TrackProduct(userId, d) ==
    IF FindUser(userId) = {}
    THEN /\ dbCall' = [op |-> "trackProduct", userId |-> userId, threw |-> TRUE,
                       message |-> "User not found"]
         /\ UNCHANGED <<User, Product, Price, uuids, clock>>
    ELSE /\ Cardinality(Product) < MaxProducts
         /\ Len(Price) < MaxPrices
         /\ LET user == CHOOSE u \in FindUser(userId) : TRUE
                product == CreatedProduct(user, d, uuids + 1)
            IN /\ Product' = Product \cup {product}
               /\ Price' = Append(Price, [id |-> uuids + 2, amount |-> InitialAmount(d),
                                          createdAt |-> clock + 1, productId |-> product.id])
               /\ dbCall' = [op |-> "trackProduct", userId |-> userId, threw |-> FALSE,
                             ret |-> product]
         /\ uuids' = uuids + 2
         /\ clock' = clock + 1
         /\ UNCHANGED User

\* the target prices a caller gives, in thousandths of a dollar (19995 is $19.995)
TargetPrices == {0, 19995, 25000}

TrackingTypes == {"price", "stock", "both"}

\* Math.round(target_price * 100) of a price given in thousandths of a dollar
RoundToCents(target_price) == (target_price + 5) \div 10

\* the object the track_product tool hands to the service; the tool passes no
\* currentPrice
ToolDetails(name, p, hasTarget, target_price, tracking_type, u) ==
    [name |-> name, platform |-> p,
     target_price |-> IF hasTarget /\ target_price # 0 THEN RoundToCents(target_price) ELSE null,
     tracking_type |-> tracking_type, url |-> u, hasPrice |-> FALSE, currentPrice |-> 0]

\* the track_product tool: execute({name, platform, target_price, tracking_type, url, userId})
TrackProductTool(userId, name, p, hasTarget, target_price, tracking_type, u) ==
    TrackProduct(userId, ToolDetails(name, p, hasTarget, target_price, tracking_type, u))

\* the rows the updates of one transaction insert, in the order of data
RECURSIVE NewPrices(_, _, _)
NewPrices(data, firstId, now) ==
    IF data = <<>> THEN <<>>
    ELSE <<[id |-> firstId, amount |-> Head(data).currentPrice, createdAt |-> now,
            productId |-> Head(data).id]>> \o NewPrices(Tail(data), firstId + 1, now)

\* an update that replaces the latest Price row of the product instead of adding one
NewPriceTable_Overwrite(rows, data) ==
    IF data # <<>> /\ rows # <<>>
    THEN SubSeq(rows, 1, Len(rows) - 1) \o NewPrices(data, uuids + 1, clock + 1)
    ELSE rows \o NewPrices(data, uuids + 1, clock + 1)

\* prices: { create: { amount } } of every item
NewPriceTable(rows, data) == rows \o NewPrices(data, uuids + 1, clock + 1)

\* updates run one after the other, outside a transaction: those before the
\* first missing product are kept
UpdateAllProducts_Sequential(data) ==
    LET Exists(j) == \E q \in Product : q.id = data[j].id
        n == CHOOSE m \in 0..Len(data) :
                /\ \A j \in 1..m : Exists(j)
                /\ m = Len(data) \/ ~Exists(m + 1)
        done == SubSeq(data, 1, n)
    IN /\ Len(Price) + n <= MaxPrices
       /\ Price' = NewPriceTable(Price, done)
       /\ uuids' = uuids + n
       /\ clock' = IF done = <<>> THEN clock ELSE clock + 1
       /\ dbCall' = IF n = Len(data)
                    THEN [op |-> "updateAllProducts", data |-> data, threw |-> FALSE]
                    ELSE [op |-> "updateAllProducts", data |-> data, threw |-> TRUE,
                          message |-> "Record to update not found"]
       /\ UNCHANGED <<User, Product>>

\* ProductService.updateAllProducts: one transaction, all updates or none
UpdateAllProducts(data) ==
    IF \A j \in 1..Len(data) : \E q \in Product : q.id = data[j].id
    THEN /\ Len(Price) + Len(data) <= MaxPrices
         /\ Price' = NewPriceTable(Price, data)
         /\ uuids' = uuids + Len(data)
         /\ clock' = IF data = <<>> THEN clock ELSE clock + 1
         /\ dbCall' = [op |-> "updateAllProducts", data |-> data, threw |-> FALSE]
         /\ UNCHANGED <<User, Product>>
    ELSE /\ dbCall' = [op |-> "updateAllProducts", data |-> data, threw |-> TRUE,
                       message |-> "Record to update not found"]
         /\ UNCHANGED <<User, Product, Price, uuids, clock>>

\* the orders in which a query without orderBy may return rows
RECURSIVE Orders(_)
Orders(rows) ==
    IF rows = <<>> THEN {<<>>}
    ELSE UNION {{<<rows[j]>> \o t :
                   t \in Orders(SubSeq(rows, 1, j - 1) \o SubSeq(rows, j + 1, Len(rows)))} :
                j \in 1..Len(rows)}

\* the products of a user
ProductsOf(userId) == {q \in Product : \E u \in FindUser(userId) : q.userId = u.id}

\* the orders in which prices may come back for a product
PriceOrders(q, include_price_history) ==
    IF include_price_history THEN Orders(RowsOf(Price, q.id)) ELSE {<<>>}

\* ProductService.getUserTrackedProducts: include: { prices: true } asks for the
\* rows of each product without an order; ret maps each product to its prices
GetUserTrackedProducts(userId, include_price_history) ==
    /\ \E ret \in [ProductsOf(userId) ->
                    UNION {PriceOrders(q, include_price_history) : q \in ProductsOf(userId)}] :
          /\ \A q \in ProductsOf(userId) : ret[q] \in PriceOrders(q, include_price_history)
          /\ dbCall' = [op |-> "getUserTrackedProducts", userId |-> userId,
                        include_price_history |-> include_price_history,
                        threw |-> FALSE, ret |-> ret]
    /\ UNCHANGED <<User, Product, Price, uuids, clock>>

\* orderBy: { createdAt: "desc" }, take: 1: a row none of the others is newer than
Latest(rows) ==
    {<<rows[j]>> : j \in {h \in 1..Len(rows) :
                            \A g \in 1..Len(rows) : rows[g].createdAt <= rows[h].createdAt}}
      \cup (IF rows = <<>> THEN {<<>>} ELSE {})

\* ProductService.getAllTrackedProducts
GetAllTrackedProducts ==
    /\ \E ret \in [Product -> UNION {Latest(RowsOf(Price, q.id)) : q \in Product}] :
          /\ \A q \in Product : ret[q] \in Latest(RowsOf(Price, q.id))
          /\ dbCall' = [op |-> "getAllTrackedProducts", threw |-> FALSE, ret |-> ret]
    /\ UNCHANGED <<User, Product, Price, uuids, clock>>

\* the caller has taken the result of the call
DbReturn ==
    /\ dbCall # NoCall
    /\ dbCall' = NoCall
    /\ UNCHANGED <<User, Product, Price, uuids, clock>>

\* the variables outside the services
notDbVars == <<toolVars, probe, batchVars, concVars, boot, mem>>

\* one call of a service method at a time
DbNext ==
    \/ /\ dbCall = NoCall
       /\ \E userId \in UserIds : CreateOrUpdateUser(userId) /\ UNCHANGED notDbVars
    \/ /\ dbCall = NoCall
       /\ \E userId \in UserIds, d \in ProductDetails :
             TrackProduct(userId, d) /\ UNCHANGED notDbVars
    \/ /\ dbCall = NoCall
       /\ \E userId \in UserIds, hasTarget \in BOOLEAN, target_price \in TargetPrices,
             tracking_type \in TrackingTypes :
             /\ TrackProductTool(userId, "Gadget", <<"z","a","r","a">>, hasTarget, target_price,
                                 tracking_type, U_zara)
             /\ UNCHANGED notDbVars
    \/ /\ dbCall = NoCall
       /\ \E data \in UpdateLists : UpdateAllProducts(data) /\ UNCHANGED notDbVars
    \/ /\ dbCall = NoCall
       /\ \E userId \in UserIds, include_price_history \in BOOLEAN :
             GetUserTrackedProducts(userId, include_price_history) /\ UNCHANGED notDbVars
    \/ dbCall = NoCall /\ GetAllTrackedProducts /\ UNCHANGED notDbVars
    \/ DbReturn /\ UNCHANGED notDbVars

DbSpec == Init /\ [][DbNext]_vars

-----------------------------------------------------------------------------
(* ProductService.untrackProduct, next to the other methods of the services *)

\* productId of a Price row whose Product was deleted (null)
NullId == 0 - 1

\* a delete that looks at the id only
Deletable_AnyOwner(user, productId) == {q \in Product : q.id = productId}

\* where: { id: productId, userId: user.id }
Deletable(user, productId) == {q \in Product : q.id = productId /\ q.userId = user.id}

\* the optional relation Price.Product after the delete of a Product: the rows
\* stay and their productId is set to null
SetNull(rows, productId) ==
    [j \in 1..Len(rows) |->
        IF rows[j].productId = productId THEN [rows[j] EXCEPT !.productId = NullId] ELSE rows[j]]

\* ProductService.untrackProduct
UntrackProduct(userId, productId) ==
    IF FindUser(userId) = {}
    THEN /\ dbCall' = [op |-> "untrackProduct", userId |-> userId, productId |-> productId,
                       threw |-> TRUE, message |-> "User not found"]
         /\ UNCHANGED <<User, Product, Price, uuids, clock>>
    ELSE LET user == CHOOSE u \in FindUser(userId) : TRUE
         IN IF Deletable(user, productId) = {}
            THEN /\ dbCall' = [op |-> "untrackProduct", userId |-> userId,
                               productId |-> productId, threw |-> TRUE,
                               message |-> "Record to delete does not exist"]
                 /\ UNCHANGED <<User, Product, Price, uuids, clock>>
            ELSE /\ Product' = Product \ Deletable(user, productId)
                 /\ Price' = SetNull(Price, productId)
                 /\ dbCall' = [op |-> "untrackProduct", userId |-> userId,
                               productId |-> productId, threw |-> FALSE,
                               ret |-> CHOOSE q \in Deletable(user, productId) : TRUE]
                 /\ UNCHANGED <<User, uuids, clock>>

\* the methods that write, and untrackProduct among them
UntrackNext ==
    \/ /\ dbCall = NoCall
       /\ \E userId \in UserIds : CreateOrUpdateUser(userId) /\ UNCHANGED notDbVars
    \/ /\ dbCall = NoCall
       /\ \E userId \in UserIds, d \in ProductDetails :
             TrackProduct(userId, d) /\ UNCHANGED notDbVars
    \/ /\ dbCall = NoCall
       /\ \E data \in UpdateLists : UpdateAllProducts(data) /\ UNCHANGED notDbVars
    \/ DbReturn /\ UNCHANGED notDbVars
    \/ /\ dbCall = NoCall
       /\ \E userId \in UserIds, productId \in {q.id : q \in Product} \cup {NoSuchId} :
             UntrackProduct(userId, productId) /\ UNCHANGED notDbVars

UntrackSpec == Init /\ [][UntrackNext]_vars

-----------------------------------------------------------------------------
(* The top-level code of the server module *)

\* process.env.BRIGHT_DATA_API_TOKEN: not set, set to the empty string, or a token
Tokens == {undefined, "", "tok1", "tok2"}

\* process.env.WEB_UNLOCKER_ZONE
ZoneEnvs == {undefined, "", "zone1", "zone2"}

DefaultZone == "ecommerce_tracker"

\* the names of the zones the provider lists
ZoneNames == {DefaultZone, "zone1"}

\* response.data of GET /zone/get_active_zones: nothing, or a list of zones
ZoneBodies ==
    {[nullish |-> TRUE, zones |-> <<>>]}
        \cup {[nullish |-> FALSE, zones |-> z] : z \in SeqsUpTo(ZoneNames, 2)}

\* the tools in the order of their server.addTool calls
ToolNames ==
    <<"search_products", "get_product_details", "compare_prices", "get_price_update",
      "get_user_tracked_products", "track_product", "untrack_product", "update_product_prices">>

\* a check that lets the empty string through
TokenMissing_OnlyUnset(token) == token = undefined

\* !api_token
TokenMissing(token) == Falsy(token)

\* the module is loaded: the environment is read, the credential is checked and
\* ensure_required_zones sends its first request
LoadModule(token, zone) ==
    /\ boot.pc = "load"
    /\ boot' = IF TokenMissing(token)
               THEN [boot EXCEPT !.pc = "failed", !.api_token = token,
                        !.unlocker_zone = IF Falsy(zone) THEN DefaultZone ELSE zone,
                        !.threw = "Cannot run MCP server without BRIGHT_DATA_API_TOKEN env"]
               ELSE [boot EXCEPT !.pc = "zones", !.api_token = token,
                        !.unlocker_zone = IF Falsy(zone) THEN DefaultZone ELSE zone,
                        !.requests = Append(@, [method |-> "GET", path |-> "/zone/get_active_zones",
                                                bearer |-> token])]

\* ensure_required_zones from the answer of GET /zone/get_active_zones: a
\* missing zone is created, a rejected request is logged and start-up goes on
ZonesResponse(r) ==
    /\ boot.pc = "zones"
    /\ boot' = IF ~r.ok THEN [boot EXCEPT !.pc = "tools"]
               ELSE IF \E j \in 1..Len(r.data.zones) : r.data.zones[j] = boot.unlocker_zone
               THEN [boot EXCEPT !.pc = "tools"]
               ELSE [boot EXCEPT !.pc = "create",
                        !.requests = Append(@, [method |-> "POST", path |-> "/zone",
                                                bearer |-> boot.api_token])]

\* ensure_required_zones from the answer of POST /zone; a rejection is logged
CreateResponse(ok) ==
    /\ boot.pc = "create"
    /\ boot' = [boot EXCEPT !.pc = "tools"]

\* the next server.addTool call
AddTool ==
    /\ boot.pc = "tools"
    /\ Len(boot.tools) < Len(ToolNames)
    /\ boot' = [boot EXCEPT !.tools = Append(@, ToolNames[Len(boot.tools) + 1])]

\* server.start(), the last statement of the module
Start ==
    /\ boot.pc = "tools"
    /\ Len(boot.tools) = Len(ToolNames)
    /\ boot' = [boot EXCEPT !.pc = "running", !.started = TRUE]

\* the variables outside the start of the module
notBootVars == <<toolVars, probe, batchVars, dbVars, concVars, mem>>

BootNext ==
    \/ \E token \in Tokens, zone \in ZoneEnvs : LoadModule(token, zone) /\ UNCHANGED notBootVars
    \/ \E r \in Responses(ZoneBodies) : ZonesResponse(r) /\ UNCHANGED notBootVars
    \/ \E ok \in BOOLEAN : CreateResponse(ok) /\ UNCHANGED notBootVars
    \/ AddTool /\ UNCHANGED notBootVars
    \/ Start /\ UNCHANGED notBootVars

BootSpec == Init /\ [][BootNext]_vars

-----------------------------------------------------------------------------
(* The in-memory generation: the tools that keep debug_stats.tracked_products *)

MaxCount == 3

MaxTicks == 4

\* a URL of the dataset path and a URL that is scraped
MemUrls == {U_zara, U_shop}

\* a Map with a second entry for a key that is set again
MapSet_Appends(map, key, value) == Append(map, [key |-> key, value |-> value])

\* Map.prototype.has
MapHas(map, key) == \E j \in 1..Len(map) : map[j].key = key

\* Map.prototype.get of a key the map has
MapGet(map, key) == map[CHOOSE j \in 1..Len(map) : map[j].key = key].value

\* Map.prototype.set: the value of the key is replaced where the key is, or the
\* entry is added at the end
MapSet(map, key, value) ==
    IF MapHas(map, key)
    THEN [j \in 1..Len(map) |-> IF map[j].key = key THEN [key |-> key, value |-> value] ELSE map[j]]
    ELSE Append(map, [key |-> key, value |-> value])

\* Array.from(map.keys())
MapKeys(map) == [j \in 1..Len(map) |-> map[j].key]

\* the TrackingInfo track_product builds; last_updated, name, target_price and
\* latest_data, which no tool reads back to decide anything, are left out
TrackingInfo(map, u, now) ==
    [first_tracked |-> IF MapHas(map, u) THEN MapGet(map, u).first_tracked ELSE now,
     platform |-> detect_platform(u),
     update_count |-> (IF MapHas(map, u) THEN MapGet(map, u).update_count ELSE 0) + 1,
     url |-> u]

\* the TrackingInfo get_product_details adds for a URL not yet tracked
FirstSeen(u, now) ==
    [first_tracked |-> now, platform |-> detect_platform(u), update_count |-> 1, url |-> u]

\* tracked_products after get_product_details for u ended as answered: only a
\* result of the dataset path adds the URL, and only when the map has not got it
AfterDetails(map, u, answered, now) ==
    IF answered /\ ~Falsy(get_dataset_id(detect_platform(u))) /\ ~MapHas(map, u)
    THEN MapSet(map, u, FirstSeen(u, now))
    ELSE map

\* tracked_products after the loop body of update_tracked_prices for u
AfterUpdate(map, u, answered, now) ==
    LET fetched == AfterDetails(map, u, answered, now)
    IN IF answered /\ MapHas(fetched, u)
       THEN MapSet(fetched, u, [MapGet(fetched, u) EXCEPT !.update_count = @ + 1])
       ELSE fetched

\* new Date() is not earlier than the one before
Tick(now) == now \in {mem.now, mem.now + 1} /\ now <= MaxTicks

Counts(map) == \A j \in 1..Len(map) : map[j].value.update_count <= MaxCount

\* track_product.execute({name, target_price, url}) of the in-memory generation
MemTrackProduct(u, now) ==
    /\ Tick(now)
    /\ LET tracking_info == TrackingInfo(mem.tracked_products, u, now)
           map == MapSet(mem.tracked_products, u, tracking_info)
       IN /\ Counts(map)
          /\ mem' = [mem EXCEPT !.tracked_products = map, !.now = now,
                        !.call = [op |-> "track_product", url |-> u,
                                  total_tracked |-> Len(map)]]

\* get_product_details.execute({url}) of the in-memory generation, from the
\* last answer of the provider to its return or throw
MemGetProductDetails(u, answered, now) ==
    /\ Tick(now)
    /\ mem' = [mem EXCEPT !.tracked_products = AfterDetails(@, u, answered, now), !.now = now,
                  !.call = [op |-> "get_product_details", url |-> u]]

\* update_tracked_prices.execute({url}) up to its first await
MemUpdateTrackedPrices(hasUrl, u) ==
    /\ ~mem.running
    /\ mem' = [mem EXCEPT !.running = TRUE,
                  !.todo = IF hasUrl THEN <<u>> ELSE MapKeys(mem.tracked_products),
                  !.updates = <<>>,
                  !.call = [op |-> "update_tracked_prices", url |-> u]]

\* update_tracked_prices: the nested call for the next URL has ended
MemUpdateStep(answered, now) ==
    /\ mem.running /\ mem.todo # <<>>
    /\ Tick(now)
    /\ LET product_url == Head(mem.todo)
           map == AfterUpdate(mem.tracked_products, product_url, answered, now)
       IN /\ Counts(map)
          /\ mem' = [mem EXCEPT !.tracked_products = map, !.now = now,
                        !.todo = Tail(@),
                        !.updates = Append(@, [status |-> IF answered THEN "updated" ELSE "error",
                                               url |-> product_url]),
                        !.call = [op |-> "update_tracked_prices", url |-> product_url]]

\* update_tracked_prices returns after the last URL
MemUpdateReturn ==
    /\ mem.running /\ mem.todo = <<>>
    /\ mem' = [mem EXCEPT !.running = FALSE,
                  !.todo = <<>>, !.updates = <<>>,
                  !.call = [op |-> "update_tracked_prices", url |-> undefined]]

\* the variables outside the in-memory generation
notMemVars == <<toolVars, probe, batchVars, dbVars, concVars, boot>>

MemNext ==
    \/ \E u \in MemUrls, now \in 0..MaxTicks : MemTrackProduct(u, now) /\ UNCHANGED notMemVars
    \/ \E u \in MemUrls, answered \in BOOLEAN, now \in 0..MaxTicks :
          MemGetProductDetails(u, answered, now) /\ UNCHANGED notMemVars
    \/ \E hasUrl \in BOOLEAN, u \in MemUrls :
          MemUpdateTrackedPrices(hasUrl, u) /\ UNCHANGED notMemVars
    \/ \E answered \in BOOLEAN, now \in 0..MaxTicks :
          MemUpdateStep(answered, now) /\ UNCHANGED notMemVars
    \/ MemUpdateReturn /\ UNCHANGED notMemVars

MemSpec == Init /\ [][MemNext]_vars

-----------------------------------------------------------------------------
(* get_product_details: several calls suspended at their awaits at the same time *)

ConcUrls == {U_zara, U_ebay, U_shop}

\* the provider names every snapshot it creates differently
ConcTriggerBodies ==
    {[nullish |-> FALSE, hasId |-> FALSE, snapshot_id |-> NoSnapshot],
     [nullish |-> FALSE, hasId |-> TRUE, snapshot_id |-> snapshots + 1]}

ConcProgressBodies == {[nullish |-> FALSE, status |-> s] : s \in {"running", "failed", "ready"}}

\* the payload the provider holds for a snapshot
PayloadOf(s) == [snapshot |-> s]

\* the call whose locals are changed by this step
Resume(c, call) == calls' = [calls EXCEPT ![c] = call]

\* a handler whose snapshot_id is one variable of the module, set by the last trigger
PolledId_Shared(c) == snapshots

\* `${snapshot_id}` of the progress and snapshot requests: the const of the call
PolledId(c) == calls[c].snapshot_id

\* execute({url}) of call c up to its first await
CallGetProductDetails(c, u) ==
    /\ calls[c].pc = "idle"
    /\ Resume(c, Call(IF Falsy(get_dataset_id(detect_platform(u))) THEN "scrape" ELSE "trigger",
                      u, detect_platform(u), get_dataset_id(detect_platform(u)),
                      NoSnapshot, 0, Pending, {}))
    /\ UNCHANGED snapshots

\* call c: the scrape fallback, from the answer of POST /request to the return
CallScrapeResponse(c, r) ==
    /\ calls[c].pc = "scrape"
    /\ LET parsedProduct == parseProductDetails(r.data, calls[c].platform, Origin(calls[c].url))
           o == IF ~r.ok THEN Threw(AxiosError)
                ELSE IF parsedProduct.threw THEN Threw(parsedProduct.message)
                ELSE Returned([data |-> parsedProduct.value, method |-> "scraping",
                               platform |-> calls[c].platform, url |-> calls[c].url])
       IN Resume(c, [calls[c] EXCEPT !.pc = "done", !.outcome = o])
    /\ UNCHANGED snapshots

\* call c: the head of the poll loop with i = n
CallLoopHead(call, n) ==
    IF n < max_attempts
    THEN [call EXCEPT !.i = n, !.pc = "delay"]
    ELSE [call EXCEPT !.i = n, !.pc = "done",
                      !.outcome = Threw("Timeout waiting for dataset results")]

\* call c: from the answer of the trigger request to the first sleep
CallTriggerResponse(c, r) ==
    /\ calls[c].pc = "trigger"
    /\ IF ~r.ok
       THEN /\ Resume(c, [calls[c] EXCEPT !.pc = "done", !.outcome = Threw(AxiosError)])
            /\ UNCHANGED snapshots
       ELSE IF ~r.data.hasId
       THEN /\ Resume(c, [calls[c] EXCEPT !.pc = "done",
                            !.outcome = Threw("Failed to trigger dataset collection")])
            /\ UNCHANGED snapshots
       ELSE /\ Resume(c, CallLoopHead([calls[c] EXCEPT !.snapshot_id = r.data.snapshot_id], 0))
            /\ snapshots' = r.data.snapshot_id

\* call c: the 2 second timer fires and the progress request is issued
CallDelayDone(c) ==
    /\ calls[c].pc = "delay"
    /\ Resume(c, [calls[c] EXCEPT !.pc = "progress",
                                  !.requested = @ \cup {PolledId(c)}])
    /\ UNCHANGED snapshots

\* call c: from the answer of a progress request to the next await
CallProgressResponse(c, r) ==
    /\ calls[c].pc = "progress"
    /\ IF ~r.ok
       THEN Resume(c, [calls[c] EXCEPT !.pc = "done", !.outcome = Threw(AxiosError)])
       ELSE CASE StatusStep(r.data.status) = "continue" ->
                    Resume(c, CallLoopHead(calls[c], NextAttempt(calls[c].i)))
              [] StatusStep(r.data.status) = "throw" ->
                    Resume(c, [calls[c] EXCEPT !.pc = "done",
                                 !.outcome = Threw("Dataset collection failed")])
              [] OTHER ->
                    Resume(c, [calls[c] EXCEPT !.pc = "snapshot",
                                               !.requested = @ \cup {PolledId(c)}])
    /\ UNCHANGED snapshots

\* call c: from the answer of the snapshot request to the return; the provider
\* answers with the payload of the snapshot the request names
CallSnapshotResponse(c, ok) ==
    /\ calls[c].pc = "snapshot"
    /\ Resume(c, [calls[c] EXCEPT
                    !.pc = "done",
                    !.outcome = IF ~ok THEN Threw(AxiosError)
                                ELSE Returned([data |-> PayloadOf(PolledId(c)),
                                               method |-> "structured_dataset",
                                               platform |-> calls[c].platform,
                                               url |-> calls[c].url])])
    /\ UNCHANGED snapshots

\* the variables outside the interleaved calls
notConcVars == <<toolVars, probe, batchVars, dbVars, boot, mem>>

ConcNext ==
    \/ \E c \in Calls, u \in ConcUrls : CallGetProductDetails(c, u) /\ UNCHANGED notConcVars
    \/ \E c \in Calls, r \in Responses(BatchDocs) : CallScrapeResponse(c, r) /\ UNCHANGED notConcVars
    \/ \E c \in Calls, r \in Responses(ConcTriggerBodies) :
          CallTriggerResponse(c, r) /\ UNCHANGED notConcVars
    \/ \E c \in Calls : CallDelayDone(c) /\ UNCHANGED notConcVars
    \/ \E c \in Calls, r \in Responses(ConcProgressBodies) :
          CallProgressResponse(c, r) /\ UNCHANGED notConcVars
    \/ \E c \in Calls, ok \in BOOLEAN : CallSnapshotResponse(c, ok) /\ UNCHANGED notConcVars

ConcSpec == Init /\ [][ConcNext]_vars

-----------------------------------------------------------------------------
(* Properties of get_product_details on the dataset path *)

Count(op) == Cardinality({j \in 1..Len(log) : log[j].op = op})

Last(h) == h[Len(h)]

InDetails == tool = "get_product_details"

\* the call triggered a dataset job and the trigger was answered
TriggerAnswered ==
    /\ InDetails
    /\ Len(log) >= 1 /\ log[1].op = OP_TRIGGER
    /\ Len(responses) >= 1

\* the progress requests issued before the snapshot request
ProgressBeforeSnapshot ==
    Cardinality({j \in 1..Len(log) :
        /\ log[j].op = OP_PROGRESS
        /\ \E m \in (j + 1)..Len(log) : log[m].op = OP_SNAPSHOT})

RunningRunningReady == <<"running", "running", "ready">>

\* C1 as stated: with the statuses running, running, ready the snapshot request
\* is preceded by exactly 2 progress requests.
C1_TwoPollsBeforeFetch ==
    (InDetails /\ statuses = RunningRunningReady /\ Count(OP_SNAPSHOT) = 1)
        => ProgressBeforeSnapshot = 2

\* C1 amended: with the statuses running, running, ready the call issues exactly
\* 3 progress requests, one per status answered, and then one snapshot request;
\* 2 of them were answered "running".
C1_ThreePollsBeforeFetch ==
    (InDetails /\ statuses = RunningRunningReady)
        => /\ Count(OP_SNAPSHOT) = 1
           /\ ProgressBeforeSnapshot = 3
           /\ Count(OP_PROGRESS) = 3
           /\ Last(log).op = OP_SNAPSHOT

C1_Witness ==
    /\ InDetails /\ statuses = RunningRunningReady
    /\ pc = "snapshot" /\ Count(OP_PROGRESS) = 3

\* C2: a trigger answer without snapshot_id ends the call at once with the
\* trigger error; no delay, no progress request and no snapshot request is made.
C2_NoSnapshotIdFailsAtOnce ==
    (TriggerAnswered /\ responses[1].ok
       /\ (responses[1].data.nullish \/ responses[1].data.snapshot_id = undefined))
        => /\ pc = "done"
           /\ outcome = Threw("Failed to trigger dataset collection")
           /\ Count(OP_PROGRESS) = 0
           /\ Count(OP_SNAPSHOT) = 0
           /\ Count(OP_DELAY) = 0
           /\ Len(log) = 1

C2_Witness ==
    /\ TriggerAnswered /\ responses[1].ok
    /\ ~responses[1].data.nullish /\ responses[1].data.snapshot_id = undefined
    /\ outcome = Threw("Failed to trigger dataset collection")

\* every answer after the trigger's is a progress body with status "running"
OnlyRunning ==
    /\ TriggerAnswered
    /\ \A j \in 2..Len(responses) :
          responses[j].ok /\ ~responses[j].data.nullish
            /\ responses[j].data.status = "running"

\* C3: while every progress answer is "running" the call issues at most 30
\* progress requests and no snapshot request; after the 30th answer it has
\* ended with the timeout error, having issued exactly 30.
C3_ThirtyPollsThenTimeout ==
    OnlyRunning
        => /\ Count(OP_PROGRESS) <= 30
           /\ Count(OP_SNAPSHOT) = 0
           /\ Len(responses) <= 31
           /\ (Len(responses) = 31
                 => /\ pc = "done"
                    /\ Count(OP_PROGRESS) = 30
                    /\ outcome = Threw("Timeout waiting for dataset results"))
           /\ ((pc = "done" /\ Len(responses) >= 2) => Len(responses) = 31)

C3_Witness ==
    /\ OnlyRunning /\ Len(responses) = 31 /\ Count(OP_PROGRESS) = 30
    /\ outcome = Threw("Timeout waiting for dataset results")

\* C4: once a progress answer has status "failed" the call has ended with
\* "Dataset collection failed": that answer's request is the last request of the
\* call, no snapshot request was made and nothing is returned.
C4_FailedEndsCall ==
    (InDetails /\ statuses # <<>> /\ Last(statuses) = "failed")
        => /\ pc = "done"
           /\ outcome = Threw("Dataset collection failed")
           /\ Last(log).op = OP_PROGRESS
           /\ Count(OP_PROGRESS) = Len(statuses)
           /\ Count(OP_SNAPSHOT) = 0

C4_Witness ==
    /\ InDetails /\ Len(statuses) = 3 /\ Last(statuses) = "failed"
    /\ outcome = Threw("Dataset collection failed")

\* C5: once a progress answer has a status other than "running" and "failed"
\* (a missing status included) exactly one snapshot request follows it, it is
\* the last request of the call, and when it is answered the call returns the
\* envelope whose data is the payload answered.
C5_OtherStatusIsReady ==
    (InDetails /\ statuses # <<>> /\ Last(statuses) \notin {"running", "failed"})
        => /\ Count(OP_SNAPSHOT) = 1
           /\ Last(log).op = OP_SNAPSHOT
           /\ log[Len(log) - 1].op = OP_PROGRESS
           /\ Count(OP_PROGRESS) = Len(statuses)
           /\ pc \in {"snapshot", "done"}
           /\ (pc = "snapshot" => outcome = Pending)
           /\ ((pc = "done" /\ Last(responses).ok)
                 => /\ outcome.status = "returned"
                    /\ outcome.value.data = Last(responses).data
                    /\ Last(responses).data \in Payloads)

C5_Witness ==
    /\ InDetails /\ Len(statuses) = 2 /\ Last(statuses) = undefined
    /\ pc = "done" /\ outcome.status = "returned"
    /\ outcome.value.data = "payload_2"

\* C6: if every provider request is answered and every timer fires, every
\* get_product_details call ends, with a returned envelope or with an error.
C6_CallTerminates ==
    InDetails ~> (InDetails /\ pc = "done" /\ outcome.status \in {"returned", "error"})

C6_Witness ==
    /\ InDetails /\ pc = "done" /\ Len(statuses) = 30
    /\ outcome = Threw("Timeout waiting for dataset results")

\* the URLs of Urls without any of the seven fragments
UnknownUrls == {U_shop, U_nodot}

\* C7: for a URL of an unknown platform whose raw-content request is answered
\* with a page, the call returns the envelope with method "scraping" after one
\* POST /request and one run of the extractor, and makes no other request.
C7_UnknownPlatformScrapes ==
    (InDetails /\ pc = "done" /\ url \in UnknownUrls
       /\ responses[1].ok /\ ~responses[1].data.nullish)
        => /\ Len(log) = 1 /\ log[1].op = OP_REQUEST
           /\ extracted = 1
           /\ outcome.status = "returned"
           /\ outcome.value.method = "scraping"
           /\ outcome.value.platform = "unknown"
           /\ outcome.value.url = url

\* the tag of each URL of Urls that holds a fragment, written out
TagOfUrl(u) ==
    CASE u = U_amazon -> "amazon"
      [] u = U_ebay -> "ebay"
      [] u = U_walmart -> "walmart"
      [] u = U_etsy -> "etsy"
      [] u = U_bestbuy -> "bestbuy"
      [] u = U_homedepot -> "homedepot"
      [] u = U_zara -> "zara"
      [] u = U_both -> "amazon"
      [] OTHER -> "unknown"

\* C8: a call for a URL of a platform with a dataset id never issues
\* POST /request and never runs the extractor, and what it returns is the
\* envelope with method "structured_dataset", the platform of the URL and the URL.
C8_DatasetEnvelope ==
    (InDetails /\ url \notin UnknownUrls)
        => /\ Count(OP_REQUEST) = 0
           /\ extracted = 0
           /\ log[1].op = OP_TRIGGER
           /\ (outcome.status = "returned"
                 => /\ outcome.value.method = "structured_dataset"
                    /\ outcome.value.platform = TagOfUrl(url)
                    /\ outcome.value.url = url
                    /\ DOMAIN outcome.value = {"data", "method", "platform", "url"})

C8_Witness ==
    /\ InDetails /\ url = U_zara /\ outcome.status = "returned"
    /\ outcome.value.method = "structured_dataset" /\ outcome.value.platform = "zara"

-----------------------------------------------------------------------------
(* Properties of search_products *)

InSearch == tool = "search_products"

\* the fetch or the parsing of an answer throws
PlatformFails(r) == ~r.ok \/ r.data.nullish

\* C9: search_products never throws; the entry of a platform whose fetch or
\* parsing throws is an error entry tagged with that platform, and the entry of
\* every other platform is the data entry of its own answer, whatever the other
\* platforms of the call were answered.
C9_PartialFailure ==
    InSearch
        => /\ outcome.status # "error"
           /\ Len(results) = Len(responses)
           /\ \A j \in 1..Len(results) :
                 IF PlatformFails(responses[j])
                 THEN /\ "error" \in DOMAIN results[j]
                      /\ "data" \notin DOMAIN results[j]
                      /\ results[j].platform = platforms[j]
                 ELSE results[j] =
                        [data |-> parseSearchResults(responses[j].data, platforms[j],
                                      Origin(SearchUrl(platforms[j], query))).value,
                         platform |-> platforms[j],
                         search_url |-> SearchUrl(platforms[j], query)]
           /\ (pc = "done" => /\ outcome.status = "returned"
                              /\ outcome.value.results = results
                              /\ Len(results) = Len(platforms))

C9_Witness ==
    /\ InSearch /\ pc = "done" /\ platforms = <<"amazon", "ebay">>
    /\ ~PlatformFails(responses[1]) /\ ~responses[2].ok
    /\ Len(results[1].data) > 0 /\ results[1].platform = "amazon"
    /\ results[2].platform = "ebay" /\ "error" \in DOMAIN results[2]

\* C10: the platforms are fetched one at a time in the order given: at most
\* one request is in flight, the request for platform k is in flight only when
\* the entries of platforms 1..k-1 are in the list, and the list holds one
\* entry per platform handled, in request order.
C10_OneAtATime ==
    InSearch
        => /\ inflight <= 1
           /\ Len(log) <= Len(platforms)
           /\ \A j \in 1..Len(log) :
                 log[j].op = OP_REQUEST /\ log[j].arg = SearchUrl(platforms[j], query)
           /\ \A j \in 1..Len(results) : results[j].platform = platforms[j]
           /\ (pc = "search" => /\ inflight = 1
                                /\ Len(log) = Len(results) + 1
                                /\ k = Len(log))
           /\ (pc = "done" => /\ inflight = 0
                              /\ Len(log) = Len(platforms)
                              /\ Len(results) = Len(platforms))

C10_Witness ==
    /\ InSearch /\ pc = "search" /\ Len(platforms) = 2 /\ k = 2
    /\ Len(results) = 1 /\ inflight = 1

-----------------------------------------------------------------------------
(* Properties of the extractor's functions *)

Searched == probe.fn = "parseSearchResults" /\ probe.platform \in SupportedPlatforms

Emitted == IF Searched /\ ~probe.ret.threw THEN probe.ret.value ELSE <<>>

\* C11: for every supported platform and every document, no emitted search item
\* lacks a name, a finite numeric price or a resolvable URL (an href to resolve).
C11_EmittedItemsComplete ==
    \A j \in 1..Len(Emitted) :
        /\ Emitted[j].name # ""
        /\ ~Emitted[j].price.nan
        /\ Emitted[j].url # <<>>
        /\ Emitted[j].url # probe.baseUrl \o S_undefined

\* the fixed order of the fragments, with the tag of each
FragmentOrder ==
    << [frag |-> <<"a","m","a","z","o","n",".">>, tag |-> "amazon"],
       [frag |-> <<"e","b","a","y",".">>, tag |-> "ebay"],
       [frag |-> <<"w","a","l","m","a","r","t",".">>, tag |-> "walmart"],
       [frag |-> <<"e","t","s","y",".">>, tag |-> "etsy"],
       [frag |-> <<"b","e","s","t","b","u","y",".">>, tag |-> "bestbuy"],
       [frag |-> <<"h","o","m","e","d","e","p","o","t",".">>, tag |-> "homedepot"],
       [frag |-> <<"z","a","r","a",".">>, tag |-> "zara"] >>

Occurring(u) == {j \in 1..Len(FragmentOrder) : Includes(u, FragmentOrder[j].frag)}

Detected == probe.fn = "detect_platform"

\* C12: detect_platform returns, for every URL, the tag of the first fragment in the
\* order amazon., ebay., walmart., etsy., bestbuy., homedepot., zara. that occurs in
\* the URL, and "unknown" exactly when none of the seven occurs.
C12_FirstFragmentInOrder ==
    Detected =>
        /\ Occurring(probe.url) = {} <=> probe.ret = "unknown"
        /\ \A j \in Occurring(probe.url) :
              (\A h \in Occurring(probe.url) : j <= h) => probe.ret = FragmentOrder[j].tag

\* a URL that holds "ebay." before "amazon." was classified
C12_Witness ==
    /\ Detected
    /\ Cardinality(Occurring(probe.url)) = 2
    /\ probe.ret = "amazon"

LookedUp == probe.fn = "get_dataset_id"

\* C13: get_dataset_id returns the configured dataset id for amazon, bestbuy, ebay,
\* etsy, homedepot, walmart and zara, and undefined for "unknown" and for any
\* platform without a non-empty configured id.
C13_ConfiguredIdOrUndefined ==
    LookedUp =>
        probe.ret = CASE probe.platform = "amazon" -> "gd_l7q7dkf244hwjntr0"
                      [] probe.platform = "bestbuy" -> "gd_ltre1jqe1jfr7cccf"
                      [] probe.platform = "ebay" -> "gd_ltr9mjt81n0zzdk1fb"
                      [] probe.platform = "etsy" -> "gd_ltppk0jdv1jqz25mz"
                      [] probe.platform = "homedepot" -> "gd_lmusivh019i7g97q2n"
                      [] probe.platform = "walmart" -> "gd_l95fol7l1ru6rlo116"
                      [] probe.platform = "zara" -> "gd_lct4vafw1tgx27d4o0"
                      [] OTHER -> undefined

\* the platform whose configured id is empty was looked up
C13_Witness == LookedUp /\ probe.platform = "unknown" /\ probe.ret = undefined

SevenPlatforms == {"amazon", "bestbuy", "ebay", "etsy", "homedepot", "walmart", "zara"}

\* a parser was applied to a document for a platform without an extraction rule
NoRule(fn) ==
    /\ probe.fn = fn
    /\ probe.platform \notin SevenPlatforms
    /\ ~probe.html.nullish

\* C14: for a platform without an extraction rule ("unknown" or any tag outside the
\* seven), parseProductDetails of a document fails with an "Unsupported platform"
\* error, while parseSearchResults of a document returns the empty sequence.
C14_NoRuleThrowsOrEmpty ==
    /\ NoRule("parseProductDetails") =>
          /\ probe.ret.threw
          /\ probe.ret.message \in
                {"Unsupported platform: unknown", "Unsupported platform: shopify"}
    /\ NoRule("parseSearchResults") => probe.ret = [threw |-> FALSE, value |-> <<>>]

\* a search page with result elements was parsed for a tag outside the seven
C14_Witness ==
    /\ NoRule("parseSearchResults")
    /\ probe.platform = "shopify"
    /\ Len(probe.html.items) = 3
    /\ ~probe.ret.threw

\* a text without any digit: empty, or not a number once stripped
NoDigit(t) == \A j \in 1..Len(t) : t[j] \notin {"0", "1", "2", "3", "4", "5", "6", "7", "8", "9"}

\* parseProductDetails was applied to a document for one of the seven platforms
Extracted ==
    /\ probe.fn = "parseProductDetails"
    /\ probe.platform \in SevenPlatforms
    /\ ~probe.html.nullish

\* C15: for every supported platform, parseProductDetails returns a record and does
\* not fail when the price region is missing, empty or non-numeric after stripping;
\* the record's price is NaN and its other fields are as extracted.
C15_NoPriceStillARecord ==
    Extracted /\ NoDigit(probe.html.price) =>
        /\ ~probe.ret.threw
        /\ probe.ret.value.price.nan
        /\ probe.ret.value.name = probe.html.name
        /\ probe.ret.value.description = probe.html.description
        /\ probe.ret.value.image = probe.html.image
        /\ probe.ret.value.platform = probe.platform
        /\ probe.ret.value.currency = "USD"

\* a page with a name and without a price region was extracted
C15_Witness ==
    /\ Extracted
    /\ probe.html.price = <<>>
    /\ probe.html.name = "Widget"
    /\ ~probe.ret.threw
    /\ probe.ret.value.price.nan

\* the price text a search parser reads of a result element
PriceTextRead(item, p) ==
    IF p = "amazon" THEN item.whole \o <<".">> \o item.fraction ELSE item.price

\* the claimed conversion: every character but digits and points removed, then parsed
StrippedPrice(t) ==
    parseFloat(SelectSeq(t, LAMBDA c :
        c \in {"0", "1", "2", "3", "4", "5", "6", "7", "8", "9", "."}))

\* C16: every price text the extractor reads, in detail extraction and in search
\* extraction of every platform, is converted by removing every character that is
\* not a digit or a decimal point and parsing what remains as a number.
C16_EveryPriceStripped ==
    /\ Extracted /\ ~probe.ret.threw =>
          probe.ret.value.price = StrippedPrice(probe.html.price)
    /\ Searched /\ Len(Emitted) = 1 /\ Len(probe.html.items) = 1 =>
          Emitted[1].price = StrippedPrice(PriceTextRead(probe.html.items[1], probe.platform))

IsAbsolute(href) == Len(href) >= 4 /\ SubSeq(href, 1, 4) = <<"h", "t", "t", "p">>

\* C17: for every platform's search extraction, the url of an emitted item is the
\* item's href when that is absolute and base_url followed by the href when it is
\* relative; it is never base_url followed by an absolute or a missing href.
C17_EmittedUrlResolved ==
    Searched /\ Len(Emitted) = 1 /\ Len(probe.html.items) = 1 =>
        LET item == probe.html.items[1]
        IN /\ item.hasHref
           /\ Emitted[1].url =
                 IF IsAbsolute(item.href) THEN item.href ELSE probe.baseUrl \o item.href

-----------------------------------------------------------------------------
(* Properties of the batch tools *)

\* a batch handler that went through its urls has returned or thrown
BatchOver ==
    /\ caller.tool \in {"compare_prices", "get_price_update"}
    /\ caller.hasUrls
    /\ caller.urls # <<>>
    /\ callerOutcome # Pending

BatchResults ==
    IF caller.tool = "compare_prices" THEN callerOutcome.value.results
    ELSE callerOutcome.value.updates

\* C18: in compare_prices with urls and in get_price_update, the batch call
\* succeeds whatever happens to the calls of get_product_details, and its results
\* hold an entry for every URL: the failure of a URL yields an error entry for it
\* and leaves the entries of the other URLs in place.
C18_EveryUrlHasAnEntry ==
    BatchOver =>
        /\ callerOutcome.status = "returned"
        /\ Len(BatchResults) = Len(caller.urls)
        /\ \A j \in 1..Len(caller.urls) : BatchResults[j].url = caller.urls[j]

-----------------------------------------------------------------------------
(* Properties of the price history *)

HistoryRead ==
    /\ dbCall.op = "getUserTrackedProducts"
    /\ dbCall.include_price_history

\* C19: after trackProduct and any updateAllProducts calls, getUserTrackedProducts
\* with include_price_history = true returns each product's price entries in the
\* order of their insertion: the initial price first, then one entry per update in
\* the order the updates were applied.
C19_HistoryInInsertionOrder ==
    HistoryRead =>
        \A q \in DOMAIN dbCall.ret :
            /\ Len(dbCall.ret[q]) = Len(RowsOf(Price, q.id))
            /\ \A j \in 1..Len(dbCall.ret[q]) : dbCall.ret[q][j] = RowsOf(Price, q.id)[j]

\* a call of a write method of ProductService has succeeded in this step
Wrote(op) == dbCall = NoCall /\ dbCall'.op = op /\ ~dbCall'.threw

\* the rows added in this step
Added == SubSeq(Price', Len(Price) + 1, Len(Price'))

\* C20: the price history is append-only: no step of trackProduct, updateAllProducts
\* or of a read modifies or removes a Price row; trackProduct adds exactly one row,
\* to the new product, and updateAllProducts adds exactly one row per item, to the
\* product the item names.
C20_AppendOnly ==
    [][/\ Len(Price') >= Len(Price)
       /\ SubSeq(Price', 1, Len(Price)) = Price
       /\ Wrote("trackProduct") =>
             /\ Len(Added) = 1
             /\ Added[1].productId = dbCall'.ret.id
             /\ dbCall'.ret \in Product' \ Product
       /\ Wrote("updateAllProducts") =>
             /\ Len(Added) = Len(dbCall'.data)
             /\ \A j \in 1..Len(Added) :
                   /\ Added[j].productId = dbCall'.data[j].id
                   /\ Added[j].amount = dbCall'.data[j].currentPrice
       /\ dbCall'.op \notin {"trackProduct", "updateAllProducts"} => Price' = Price
       /\ dbCall'.op \in {"trackProduct", "updateAllProducts"} /\ dbCall'.threw =>
             Price' = Price]_vars

\* an update of two items was applied to a tracked product
C20_Witness ==
    /\ dbCall.op = "updateAllProducts"
    /\ ~dbCall.threw
    /\ Len(dbCall.data) = 2
    /\ Len(Price) = 3

-----------------------------------------------------------------------------
(* Properties of the tracked products *)

\* trackProduct has been called in this step
Tracked == dbCall = NoCall /\ dbCall'.op = "trackProduct"

\* the users whose userId is the one given to the call
Matching(userId) == {u \in User : u.userId = userId}

\* C21: every Product created through trackProduct is owned by an existing User:
\* when the userId matches no User the call fails with "User not found" and creates
\* no Product and no Price row; otherwise the created Product's userId is the id
\* of that User.
C21_OwnedByExistingUser ==
    [][Tracked =>
         IF Matching(dbCall'.userId) = {}
         THEN /\ dbCall'.threw
              /\ dbCall'.message = "User not found"
              /\ Product' = Product
              /\ Price' = Price
         ELSE /\ ~dbCall'.threw
              /\ dbCall'.ret \in Product' \ Product
              /\ \E u \in Matching(dbCall'.userId) : dbCall'.ret.userId = u.id
              /\ \A q \in Product' : \E u \in User' : q.userId = u.id]_vars

\* trackProduct failed for a userId no User has, while another User exists
C21_Witness ==
    /\ dbCall.op = "trackProduct"
    /\ dbCall.threw
    /\ User # {}
    /\ \A u \in User : u.userId # dbCall.userId

-----------------------------------------------------------------------------
(* Properties of interleaved calls of get_product_details *)

\* the calls whose trigger has answered with a snapshot id
Triggered == {c \in Calls : calls[c].snapshot_id # NoSnapshot}

\* C22: with several calls of get_product_details interleaved at their awaits,
\* every progress and snapshot request of a call names the snapshot id its own
\* trigger returned, no two calls hold the same snapshot id, and a call that
\* returns hands back its own url, the platform of that url and, on the dataset
\* path, the payload of its own snapshot, whatever the other calls did meanwhile
C22_CallsKeepToTheirOwnSnapshot ==
    /\ \A c \in Calls :
          /\ calls[c].requested \subseteq {calls[c].snapshot_id} \ {NoSnapshot}
          /\ calls[c].outcome.status = "returned" =>
                /\ calls[c].outcome.value.url = calls[c].url
                /\ calls[c].outcome.value.platform = detect_platform(calls[c].url)
                /\ calls[c].outcome.value.method = "structured_dataset" =>
                      calls[c].outcome.value.data = PayloadOf(calls[c].snapshot_id)
    /\ \A c, d \in Triggered : c # d => calls[c].snapshot_id # calls[d].snapshot_id

\* one call has returned the payload of the first snapshot after the other call,
\* for another URL, triggered a later snapshot and is still polling it
C22_Witness ==
    /\ calls["c1"].outcome.status = "returned"
    /\ calls["c1"].outcome.value.method = "structured_dataset"
    /\ calls["c1"].snapshot_id = 1
    /\ calls["c2"].pc = "progress" /\ calls["c2"].snapshot_id = 2
    /\ calls["c2"].url # calls["c1"].url

-----------------------------------------------------------------------------
(* Properties of the track_product tool *)

\* C23: the Product row the track_product tool creates records what the caller
\* asked for: a target_price given in dollars is stored in cents, and the
\* tracking_type given is the tracking_type stored
C23_RowRecordsTheRequest ==
    [][\A userId \in UserIds, hasTarget \in BOOLEAN, target_price \in TargetPrices,
          tracking_type \in TrackingTypes :
          (/\ dbCall = NoCall
           /\ TrackProductTool(userId, "Gadget", <<"z","a","r","a">>, hasTarget, target_price,
                               tracking_type, U_zara)
           /\ ~dbCall'.threw)
          => /\ dbCall'.ret.tracking_type = tracking_type
             /\ hasTarget => /\ dbCall'.ret.target_price # null
                             /\ dbCall'.ret.target_price = RoundToCents(target_price)]_vars

-----------------------------------------------------------------------------
(* Properties of the start of the server module *)

\* C24: when BRIGHT_DATA_API_TOKEN is missing (not set, or empty), loading the
\* module throws before any provider request is sent, before any tool is
\* registered and before the server is started, and nothing happens afterwards
C24_NoTokenNoStart ==
    (boot.pc # "load" /\ Falsy(boot.api_token)) =>
        /\ boot.pc = "failed"
        /\ boot.threw = "Cannot run MCP server without BRIGHT_DATA_API_TOKEN env"
        /\ boot.requests = <<>>
        /\ boot.tools = <<>>
        /\ ~boot.started

\* the module was loaded with the credential set to the empty string
C24_Witness == boot.pc = "failed" /\ boot.api_token = ""

-----------------------------------------------------------------------------
(* Properties of the order of the provider requests of one call *)

\* the provider requests of the call, without its sleeps
Requests == SelectSeq(log, LAMBDA e : e.op # OP_DELAY)

OnDatasetPath == InDetails /\ ~Falsy(dataset_id)

\* C25: on the dataset path the call's first request is its only trigger
\* request; every progress request comes right after a sleep of 2000 ms; there
\* is at most one snapshot request, it is the last request and follows a
\* progress request; every request is answered at most once and the request
\* whose answer is a rejection is the last request of the call, which has ended
C25_FixedOrderAndBudget ==
    OnDatasetPath =>
        /\ log # <<>> /\ log[1].op = OP_TRIGGER /\ Count(OP_TRIGGER) = 1
        /\ Count(OP_REQUEST) = 0
        /\ \A j \in 1..Len(log) :
              log[j].op = OP_PROGRESS => log[j - 1] = Req(OP_DELAY, 2000)
        /\ \A j \in 1..Len(log) :
              log[j].op = OP_DELAY => j > 1 /\ log[j - 1].op \in {OP_TRIGGER, OP_PROGRESS}
        /\ Count(OP_SNAPSHOT) <= 1
        /\ \A j \in 1..Len(log) :
              log[j].op = OP_SNAPSHOT => j = Len(log) /\ log[j - 1].op = OP_PROGRESS
        /\ Len(responses) <= Len(Requests) /\ Len(Requests) <= Len(responses) + 1
        /\ \A j \in 1..Len(responses) :
              ~responses[j].ok => /\ j = Len(responses) /\ Len(Requests) = j
                                  /\ pc = "done" /\ outcome = Threw(AxiosError)

\* the second progress request of a call was rejected after its second sleep
C25_Witness ==
    /\ OnDatasetPath /\ pc = "done" /\ Count(OP_PROGRESS) = 2 /\ Count(OP_DELAY) = 2
    /\ Len(responses) = 3 /\ ~responses[3].ok

-----------------------------------------------------------------------------
(* Properties of the type a comparison reports *)

\* compare_prices has returned its comparison
Compared == caller.tool = "compare_prices" /\ callerOutcome.status = "returned"

\* the comparison was made by fetching the given URLs
FetchedUrls == caller.hasUrls /\ Len(caller.urls) > 0

\* C26: a comparison obtained by fetching the given URLs has the type
\* "url_comparison", and one obtained by searching the query, as for an empty
\* list of URLs with a query, has the type "search_comparison"
C26_TypeNamesThePathTaken ==
    Compared =>
        callerOutcome.value.type =
            IF FetchedUrls THEN "url_comparison" ELSE "search_comparison"

-----------------------------------------------------------------------------
(* Properties of the result of get_price_update *)

\* get_price_update has ended
Updated == caller.tool = "get_price_update" /\ callerOutcome # Pending

\* C27: get_price_update returns, whatever happened to the calls it made; its
\* updates hold exactly one entry per requested URL, in the order of the
\* request, each with the status "updated" or "error", and updated_products is
\* the number of requested URLs
C27_OneEntryPerUrlInOrder ==
    Updated =>
        /\ callerOutcome.status = "returned"
        /\ Len(callerOutcome.value.updates) = Len(caller.urls)
        /\ \A j \in 1..Len(caller.urls) :
              /\ callerOutcome.value.updates[j].url = caller.urls[j]
              /\ callerOutcome.value.updates[j].status \in {"updated", "error"}
        /\ callerOutcome.value.updated_products = Len(caller.urls)

\* two URLs were requested; the first was fetched and the second failed
C27_Witness ==
    /\ Updated /\ Len(caller.urls) = 2
    /\ callerOutcome.value.updates[1].status = "updated"
    /\ callerOutcome.value.updates[2].status = "error"

-----------------------------------------------------------------------------
(* Properties of untrackProduct *)

\* untrackProduct has been called in this step
Untracked == dbCall = NoCall /\ dbCall'.op = "untrackProduct"

\* the Products with the given id that the User with the given userId owns
OwnedBy(userId, productId) ==
    {q \in Product : q.id = productId /\ \E u \in Matching(userId) : q.userId = u.id}

\* C28: untrackProduct(userId, productId) removes the Product with that id when
\* the User with that userId owns it, and nothing else; when the user is unknown,
\* or no Product has the id, or its owner is another user, the call fails and
\* the Products and the Price rows are what they were
C28_RemovesOnlyOwnProduct ==
    [][Untracked =>
         IF OwnedBy(dbCall'.userId, dbCall'.productId) = {}
         THEN /\ dbCall'.threw
              /\ Product' = Product
              /\ Price' = Price
         ELSE /\ ~dbCall'.threw
              /\ Product' = Product \ OwnedBy(dbCall'.userId, dbCall'.productId)
              /\ Len(Price') = Len(Price)
              /\ \A j \in 1..Len(Price) :
                    /\ Price'[j].id = Price[j].id
                    /\ Price'[j].amount = Price[j].amount]_vars

\* a known user asked to untrack a product that another user owns
C28_Witness ==
    /\ dbCall.op = "untrackProduct" /\ dbCall.threw
    /\ \E q \in Product, u \in User :
          q.id = dbCall.productId /\ u.userId = dbCall.userId /\ q.userId # u.id

-----------------------------------------------------------------------------
(* Properties of updateAllProducts *)

\* updateAllProducts has been called in this step
UpdatedAll == dbCall = NoCall /\ dbCall'.op = "updateAllProducts"

\* the items of the batch that name no Product
Missing(data) == {j \in 1..Len(data) : \A q \in Product : q.id # data[j].id}

\* C29: updateAllProducts is all-or-nothing: when an item of the batch names a
\* product id that does not exist the call fails and the Price rows are what
\* they were; when every id exists the call adds exactly one Price row per
\* item, with the item's price for the item's product
C29_AllOrNothing ==
    [][UpdatedAll =>
         IF Missing(dbCall'.data) # {}
         THEN /\ dbCall'.threw
              /\ Price' = Price
         ELSE /\ ~dbCall'.threw
              /\ Len(Price') = Len(Price) + Len(dbCall'.data)
              /\ SubSeq(Price', 1, Len(Price)) = Price
              /\ \A j \in 1..Len(dbCall'.data) :
                    /\ Price'[Len(Price) + j].amount = dbCall'.data[j].currentPrice
                    /\ Price'[Len(Price) + j].productId = dbCall'.data[j].id]_vars

\* a batch failed whose first item names a tracked product and whose second
\* item names none
C29_Witness ==
    /\ dbCall.op = "updateAllProducts" /\ dbCall.threw
    /\ Len(dbCall.data) = 2
    /\ \E q \in Product : q.id = dbCall.data[1].id
    /\ \A q \in Product : q.id # dbCall.data[2].id

-----------------------------------------------------------------------------
(* Properties of the tracked map of the in-memory generation *)

\* the positions of the entries of a map for a URL
EntriesFor(map, u) == {j \in 1..Len(map) : map[j].key = u}

\* the value of the entry of a map for a URL that has one
EntryOf(map, u) == map[CHOOSE j \in EntriesFor(map, u) : TRUE].value

\* C30: over the calls of track_product, get_product_details and
\* update_tracked_prices the tracked map has at most one entry per URL; a URL
\* that is tracked stays tracked with the first_tracked it has; tracking or
\* fetching a URL that is tracked adds no entry; a track_product call sets the
\* update_count of its URL to one more than it was (1 for a new URL) and its
\* total_tracked is the number of distinct tracked URLs
C30_OneEntryPerUrl ==
    [][LET old == mem.tracked_products
           new == mem'.tracked_products
           u == mem'.call.url
       IN /\ \A v \in MemUrls : Cardinality(EntriesFor(new, v)) <= 1
          /\ \A v \in MemUrls :
                EntriesFor(old, v) # {} =>
                   /\ EntriesFor(new, v) # {}
                   /\ EntryOf(new, v).first_tracked = EntryOf(old, v).first_tracked
          /\ (mem'.call.op \in {"track_product", "get_product_details"}
                /\ EntriesFor(old, u) # {}) => Len(new) = Len(old)
          /\ mem'.call.op = "track_product" =>
                /\ EntriesFor(new, u) # {}
                /\ EntryOf(new, u).update_count =
                      (IF EntriesFor(old, u) = {} THEN 0 ELSE EntryOf(old, u).update_count) + 1
                /\ mem'.call.total_tracked = Cardinality({new[j].key : j \in 1..Len(new)})
                /\ mem'.call.total_tracked = Len(new)]_vars

\* track_product was called for a URL that is the second of two tracked URLs
\* and was first tracked earlier; its update_count is now 3
C30_Witness ==
    /\ mem.call.op = "track_product" /\ mem.call.url = U_zara
    /\ mem.call.total_tracked = 2
    /\ Len(mem.tracked_products) = 2
    /\ mem.tracked_products[2].key = U_zara
    /\ mem.tracked_products[2].value.update_count = 3
    /\ mem.tracked_products[2].value.first_tracked < mem.now

====
